---- MODULE Spec2Model ----
(***************************************************************************)
(* A model of the reactive runtime of src/src/core/core.js: signals,       *)
(* effects and memos (the reactive core), the element builder `html`, its  *)
(* child binder `appendChild`, and `render`.                               *)
(*                                                                         *)
(* Every call of the runtime is synchronous and runs to completion, so a   *)
(* call is one action.  The action is computed by a big-step evaluator     *)
(* (RunEffect, Setter, Exec, ...) that follows the code statement by       *)
(* statement, including every re-entrant call, and that appends what it    *)
(* does to `log`, the trace of the call in progress.                       *)
(*                                                                         *)
(* The callbacks handed to the runtime (effect bodies, memo functions,     *)
(* updater functions) are inputs.  They are drawn from the small set       *)
(* Bodies of straight-line programs over the signals.  The pages handed    *)
(* to html and render are the components of Comp, taken from the README.   *)
(* Spec exercises the reactive core alone, SpecDom the pages.              *)
(*                                                                         *)
(* What the runtime defers (the function given to onMount, the reactions   *)
(* of a thenable child) is a job of `queue`; the action Microtask runs the *)
(* oldest job, and a new task starts only when the queue is empty.         *)
(* SpecTasks exercises the pages together with writes, settlements of the  *)
(* promise and calls of the ref accessor.  SpecBuild exercises html and    *)
(* render alone, over the tag names and the shapes of children and of      *)
(* results; SpecDerived the reactive core with effects that only read.     *)
(* SpecSiblings mounts elements with several reactive children and writes  *)
(* the signals they read; SpecFanOut has effects that subscribe while a    *)
(* write is notifying.                                                     *)
(***************************************************************************)
EXTENDS Integers, Sequences, FiniteSets, TLC

VARIABLES
  val,      \* signal -> the closure variable initialValue        (core.js:4)
  subs,     \* signal -> the Set subscribers, in insertion order  (core.js:5)
  cur,      \* the module variable currentEffect                  (core.js:3)
  effs,     \* the runEffect closures created so far, by identity (core.js:37)
  made,     \* the memos created so far (their signal exists)
  dom,      \* the DOM nodes created so far, by identity; node 1 is the root
  mounted,  \* the components render was given so far
  queue,    \* the microtask queue: the jobs not yet run, oldest first
  counts,   \* how often the lifecycle functions were called and have run
  proms,    \* the promises the page gives html as children
  refs,     \* accessor made by setRef -> its closure variable current (core.js:357)
  log,      \* what the last call did, in order
  last,     \* the last call: operation, arguments, outcome, return value
  ops,      \* number of calls made so far
  halted    \* a call that never returned was made

vars == <<val, subs, cur, effs, made, dom, mounted, queue, counts, proms, refs, log, last,
          ops, halted>>

----------------------------------------------------------------------------
(* Bounds *)

\* signal values are the numbers 0 .. VMod-1 (and undefined)
VMod == 4
\* runEffect closures that may exist
MaxEffs == 4
\* top-level calls per behaviour
MaxOps == 4
\* frames of runEffect that fit on the call stack
MaxDepth == 3
\* DOM nodes that may exist
MaxNodes == 20
MaxPageOps == 3
\* calls per behaviour of a program that only builds
MaxBuilds == 2

----------------------------------------------------------------------------
(* Values *)

\* currentEffect = null (and the initial undefined): no effect is current
None == 0
\* the value undefined
Undef == -1

Nums == 0 .. (VMod - 1)
Vals == Nums \cup {Undef}

PlainSigs == {"A", "B"}
MemoSigs == {"M1", "M2"}
Sigs == PlainSigs \cup MemoSigs

----------------------------------------------------------------------------
(* The callbacks given to the runtime: straight-line programs.  A program  *)
(* has one local, acc, that starts at 0.                                   *)
(*   read s      acc := acc + s()       (undefined if either is)           *)
(*   stopIf v    if (acc === v) return                                     *)
(*   stopUnl v   if (acc !== v) return                                     *)
(*   throwIf v   if (acc === v) throw new Error()                          *)
(*   write s a   the write accessor of s called with argument a            *)
(*   effect b    setEffect(b)                                              *)

Rd(s) == [op |-> "read", s |-> s, v |-> 0, f |-> ""]
StopIf(v) == [op |-> "stopIf", s |-> "", v |-> v, f |-> ""]
StopUnl(v) == [op |-> "stopUnl", s |-> "", v |-> v, f |-> ""]
ThrowIf(v) == [op |-> "throwIf", s |-> "", v |-> v, f |-> ""]
Wr(s, f, v) == [op |-> "write", s |-> s, v |-> v, f |-> f]
Eff(b) == [op |-> "effect", s |-> "", v |-> 0, f |-> b]
\* onMount(f), onUnmount(f)
OnMountOf(f) == [op |-> "onMount", s |-> "", v |-> 0, f |-> f]
OnUnmountOf(f) == [op |-> "onUnmount", s |-> "", v |-> 0, f |-> f]

\* arguments of a write: a value, or an updater function of the old value
Lit(v) == [f |-> "lit", v |-> v]
Inc == [f |-> "inc", v |-> 0]
Boom == [f |-> "boom", v |-> 0]

Body(b) ==
  CASE b = "cntA"   -> << Rd("A") >>
    [] b = "condAB" -> << Rd("A"), StopIf(0), Rd("B") >>
    [] b = "boomA"  -> << Rd("A"), ThrowIf(1) >>
    [] b = "nestAB" -> << Rd("A"), Eff("cntA"), Rd("B") >>
    [] b = "syncAB" -> << Rd("A"), Wr("B", "acc", 0), Rd("B") >>
    [] b = "clampA" -> << Rd("A"), StopUnl(1), Wr("A", "lit", 2) >>
    [] b = "loopA"  -> << Rd("A"), Wr("A", "inc", 0) >>
    [] b = "cntM1"  -> << Rd("M1") >>
    [] b = "cntM2"  -> << Rd("M2") >>
    [] b = "M1"     -> << Rd("A"), ThrowIf(2) >>
    [] b = "M2"     -> << Rd("B"), StopIf(0), Rd("A"), Rd("M1") >>
    [] b = "lateM1" -> << Rd("A"), StopIf(0), Rd("M1") >>
    [] b = "pushB"  -> << Rd("A"), Wr("B", "acc", 0) >>
    [] b = "condBA" -> << Rd("B"), StopIf(0), Rd("A") >>
    [] b = "mountFunction"   -> << Rd("A"), ThrowIf(2) >>
    [] b = "cleanupFunction" -> << Rd("A") >>

\* the effect bodies a top-level setEffect call is given
TopBodies == {"cntA", "condAB", "boomA", "nestAB", "syncAB", "clampA",
              "loopA", "cntM1", "cntM2"}

\* the signals a body mentions must exist when it is created
Needs(b) ==
  CASE b = "cntM1" -> {"M1"}
    [] b = "cntM2" -> {"M2"}
    [] b = "M2"    -> {"M1"}
    [] OTHER       -> {}

Add(a, b) == IF a = Undef \/ b = Undef THEN Undef ELSE (a + b) % VMod

----------------------------------------------------------------------------
(* The state the evaluator threads through a call *)

St == [val |-> val, subs |-> subs, cur |-> cur, effs |-> effs, dom |-> dom,
       queue |-> queue, counts |-> counts, proms |-> proms, refs |-> refs,
       log |-> <<>>, calls |-> 0, ovf |-> FALSE]

Ev(st, ev) == [st EXCEPT !.log = Append(@, ev)]

Member(x, seq) == \E i \in 1 .. Len(seq) : seq[i] = x

\* Set.prototype.add: no duplicates, insertion order kept
SetAdd(seq, x) == IF Member(x, seq) THEN seq ELSE Append(seq, x)

\* log entries.  e: the effect run (for a read: the effect whose body reads);
\* c: the caller of the run, the id of a write call or 0 for setEffect (for an
\* assign, ret or throw: the id of the write call); x: currentEffect then
EvRun(e, c) == [t |-> "run", e |-> e, s |-> "", v |-> 0, c |-> c, x |-> e]
EvExit(e, c, threw, curAfter) ==
  [t |-> "exit", e |-> e, s |-> "", v |-> IF threw THEN 1 ELSE 0, c |-> c, x |-> curAfter]
EvRead(s, v, self, curNow) ==
  [t |-> "read", e |-> self, s |-> s, v |-> v, c |-> 0, x |-> curNow]
EvAssign(s, v, c, curNow) == [t |-> "assign", e |-> 0, s |-> s, v |-> v, c |-> c, x |-> curNow]
EvRet(s, v, c, curNow) == [t |-> "ret", e |-> 0, s |-> s, v |-> v, c |-> c, x |-> curNow]
EvThrow(s, c, curNow) == [t |-> "throw", e |-> 0, s |-> s, v |-> 0, c |-> c, x |-> curNow]

Res(st, out, ret) == [st |-> st, out |-> out, ret |-> ret]

\* a runEffect closure: what it closes over (the kind of effectFunction, the
\* callback, and for a reactive child its placeholderNode and parentElement)
\* and, of its history, the number of runs, the signals its latest run read,
\* whether a run of it has thrown, the nodes its latest run inserted and the
\* number of runs that inserted nodes when placeholderNode was no longer a
\* child of parentElement
NewEffect(kind, body, ph, par) ==
  [kind |-> kind, body |-> body, ph |-> ph, par |-> par, runs |-> 0, reads |-> {},
   failed |-> FALSE, shown |-> <<>>, loose |-> 0]

\* a result that unwinds the evaluator: the stack is exhausted ("div") or the
\* model has no room for another closure ("ovf")
Unwinds(r) == r.out \in {"div", "ovf"}

\* the lifecycle functions: the calls of onMount and onUnmount, and the runs
\* of the functions they were given
NoCounts == [onMount |-> 0, mounted |-> 0, onUnmount |-> 0, cleaned |-> 0]

\* a microtask: the callback queueMicrotask was given
MountJob(f) == [t |-> "mount", f |-> f, ph |-> 0, par |-> 0, x |-> 0]

\* the promises of the page
Promises == {"data"}

\* a promise: its state, its value or reason, and the placeholders (each with
\* its parent element) whose reactions wait for it
Pending == [state |-> "pending", x |-> 0, waits |-> <<>>]

\* the microtasks of promiseLike.then(onFulfilled).catch(onRejected): on
\* fulfilment onFulfilled runs; on rejection the promise then() returned is
\* rejected in one microtask and onRejected runs in the next
ThenJob(w, x) == [t |-> "then", f |-> "", ph |-> w.ph, par |-> w.par, x |-> x]
PassJob(w) == [t |-> "pass", f |-> "", ph |-> w.ph, par |-> w.par, x |-> 0]
CatchJob(w) == [t |-> "catch", f |-> "", ph |-> w.ph, par |-> w.par, x |-> 0]

Reaction(w, state, x) == IF state = "fulfilled" THEN ThenJob(w, x) ELSE PassJob(w)

RECURSIVE Reactions(_, _, _)
Reactions(ws, state, x) ==
  IF ws = <<>> THEN <<>> ELSE <<Reaction(Head(ws), state, x)>> \o Reactions(Tail(ws), state, x)


----------------------------------------------------------------------------
(* The DOM: nodes by identity, each with its child list.  Only what the    *)
(* runtime uses of it: createElement(NS), createTextNode, createComment,   *)
(* createDocumentFragment, appendChild, insertBefore, removeChild,         *)
(* nextSibling, textContent, setAttribute, removeAttribute.                *)

\* the container render mounts into
Root == 1
\* null, where a node is expected
NoNode == 0

HtmlNs == "http://www.w3.org/1999/xhtml"
SvgNs == "http://www.w3.org/2000/svg"

\* by: the effect whose body was executing when the node was created (None:
\* the node was created outside every effect body); built: the children
\* html's appendChild gave the element, placeholders included, in order
NewNode(type, tag, ns, text, by) ==
  [type |-> type, tag |-> tag, ns |-> ns, text |-> text, kids |-> <<>>,
   attrs |-> {}, value |-> "", on |-> {}, by |-> by, built |-> <<>>]

Without(seq, x) == SelectSeq(seq, LAMBDA y : y # x)

IndexOf(seq, x) == CHOOSE i \in 1 .. Len(seq) : seq[i] = x

\* parentNode
ParentOf(dm, n) ==
  IF \E p \in 1 .. Len(dm) : Member(n, dm[p].kids)
    THEN CHOOSE p \in 1 .. Len(dm) : Member(n, dm[p].kids)
    ELSE NoNode

\* nextSibling
NextSibling(dm, n) ==
  LET p == ParentOf(dm, n)
  IN  IF p = NoNode
        THEN NoNode
        ELSE LET i == IndexOf(dm[p].kids, n)
             IN  IF i < Len(dm[p].kids) THEN dm[p].kids[i + 1] ELSE NoNode

\* a node leaves the child list it is in
Detach(dm, n) ==
  LET p == ParentOf(dm, n)
  IN  IF p = NoNode THEN dm ELSE [dm EXCEPT ![p].kids = Without(dm[p].kids, n)]

\* the nodes an insertion of n inserts: a fragment gives its children and is
\* left empty
Inserted(dm, n) == IF dm[n].type = "frag" THEN dm[n].kids ELSE <<n>>

\* p.insertBefore(n, ref) with ref a child of p or null; p.appendChild(n) is
\* p.insertBefore(n, null)
DomInsert(dm, p, n, ref) ==
  LET ins == Inserted(dm, n)
      dm1 == IF dm[n].type = "frag"
               THEN [dm EXCEPT ![n].kids = <<>>]
               ELSE Detach(dm, n)
      ks == dm1[p].kids
      at == IF ref = NoNode THEN Len(ks) + 1 ELSE IndexOf(ks, ref)
  IN  [dm1 EXCEPT ![p].kids = SubSeq(ks, 1, at - 1) \o ins \o SubSeq(ks, at, Len(ks))]

DomAppend(dm, p, n) == DomInsert(dm, p, n, NoNode)

\* p.removeChild(n), n a child of p
DomRemove(dm, p, n) == [dm EXCEPT ![p].kids = Without(@, n)]

\* element.textContent = "": the element loses its children
DomClear(dm, p) == [dm EXCEPT ![p].kids = <<>>]

\* the element's attributes: pairs of a name and a string, one for a name
RemoveAttr(dm, n, name) ==
  [dm EXCEPT ![n].attrs = {x \in dm[n].attrs : x[1] # name}]

SetAttr(dm, n, name, v) ==
  [dm EXCEPT ![n].attrs = {x \in dm[n].attrs : x[1] # name} \cup {<<name, v>>}]

\* document.create...: the new node is the next identity
CreateNode(st, node) ==
  [st EXCEPT !.dom = Append(st.dom, node), !.ovf = st.ovf \/ Len(st.dom) >= MaxNodes]

Newest(st) == Len(st.dom)

----------------------------------------------------------------------------
(* JavaScript values that reach the element builder as tag, prop or child *)

VNull == [k |-> "null", n |-> NoNode, f |-> "", v |-> 0, items |-> <<>>]
VNode(n) == [k |-> "node", n |-> n, f |-> "", v |-> 0, items |-> <<>>]
VFn(f) == [k |-> "fn", n |-> NoNode, f |-> f, v |-> 0, items |-> <<>>]
VNum(v) == [k |-> "num", n |-> NoNode, f |-> "", v |-> v, items |-> <<>>]
VStr(str) == [k |-> "str", n |-> NoNode, f |-> str, v |-> 0, items |-> <<>>]
VBool(b) == [k |-> "bool", n |-> NoNode, f |-> "", v |-> IF b THEN 1 ELSE 0, items |-> <<>>]
VArr(items) == [k |-> "arr", n |-> NoNode, f |-> "", v |-> 0, items |-> items]
\* a promise, by name
VThen(p) == [k |-> "then", n |-> NoNode, f |-> p, v |-> 0, items |-> <<>>]

\* the value undefined
VUndef == VNum(Undef)

\* an object that has no string form: String(Object.create(null)) throws
VBad == [k |-> "bad", n |-> NoNode, f |-> "", v |-> 0, items |-> <<>>]

\* the accessors the page made with setRef()
Refs == {"inputRef"}

\* child === null || child === undefined
IsNullish(x) == x.k = "null" \/ (x.k = "num" /\ x.v = Undef)

\* String(number)
Str(v) ==
  CASE v = Undef -> "undefined"
    [] v = 0 -> "0"
    [] v = 1 -> "1"
    [] v = 2 -> "2"
    [] v = 3 -> "3"
    [] v = 4 -> "4"
    [] OTHER -> "5"

\* String(f) of a function f: its source text
FnSource == "() => ..."

\* String(x) for a value that is not a node
StringOf(x) ==
  CASE x.k = "num"  -> Str(x.v)
    [] x.k = "str"  -> x.f
    [] x.k = "bool" -> IF x.v = 1 THEN "true" ELSE "false"
    [] x.k = "fn"   -> FnSource
    [] x.k = "null" -> "null"
    [] OTHER        -> "[object Object]"

\* !x
Falsy(x) ==
  \/ x.k = "null"
  \/ (x.k = "num" /\ x.v \in {0, Undef})
  \/ (x.k = "str" /\ x.f = "")
  \/ (x.k = "bool" /\ x.v = 0)

\* array.flat(Infinity)
RECURSIVE Flat(_)
Flat(items) ==
  IF items = <<>>
    THEN <<>>
    ELSE LET h == Head(items)
         IN  (IF h.k = "arr" THEN Flat(h.items) ELSE <<h>>) \o Flat(Tail(items))

----------------------------------------------------------------------------
(* What a program gives the element builder.  A template is a JSX          *)
(* expression: evaluating it evaluates its children first, then calls      *)
(* html.  acc is the local of the callback the expression stands in.       *)

Prop(name, x) == [name |-> name, val |-> x]

TEl(tag, props, kids) == [k |-> "el", tag |-> tag, props |-> props, kids |-> kids]
TFrag(kids) == [k |-> "frag", tag |-> "", props |-> <<>>, kids |-> kids]
TComp(c) == [k |-> "comp", tag |-> c, props |-> <<>>, kids |-> <<>>]
TFn(f) == [k |-> "fn", tag |-> f, props |-> <<>>, kids |-> <<>>]
TStr(str) == [k |-> "str", tag |-> str, props |-> <<>>, kids |-> <<>>]
TNull == [k |-> "null", tag |-> "", props |-> <<>>, kids |-> <<>>]
\* the promise p
TThen(p) == [k |-> "then", tag |-> p, props |-> <<>>, kids |-> <<>>]
\* a literal: the value x
TLit(x) == [k |-> "lit", tag |-> "", props |-> << Prop("", x) >>, kids |-> <<>>]
\* [a, b, ...]
TArr(kids) == [k |-> "arr", tag |-> "", props |-> <<>>, kids |-> kids]
\* the number acc
TAcc == [k |-> "acc", tag |-> "", props |-> <<>>, kids |-> <<>>]
\* acc && a
TAnd(a) == [k |-> "and", tag |-> "", props |-> <<>>, kids |-> <<a>>]
\* acc ? a : b
TIf(a, b) == [k |-> "if", tag |-> "", props |-> <<>>, kids |-> <<a, b>>]
\* [a, a, ...], acc times
TList(a) == [k |-> "list", tag |-> "", props |-> <<>>, kids |-> <<a>>]

\* the callable children and props: () => expression
Callable(f) ==
  CASE f = "txtA"  -> [body |-> << Rd("A") >>, res |-> TAcc]
    [] f = "txtB"  -> [body |-> << Rd("B") >>, res |-> TAcc]
    [] f = "showP" -> [body |-> << Rd("A") >>,
                       res |-> TIf(TEl("p", <<>>, << TStr("Content is shown") >>),
                                   TEl("p", <<>>, << TStr("Content is hidden") >>))]
    [] f = "theme" -> [body |-> << Rd("B") >>,
                       res |-> TIf(TEl("div", <<>>, << TStr("Dark Theme") >>),
                                   TEl("div", <<>>, << TStr("Light Theme") >>))]
    [] f = "andP"  -> [body |-> << Rd("A") >>,
                       res |-> TAnd(TEl("p", <<>>, << TStr("only") >>))]
    [] f = "listB" -> [body |-> << Rd("B") >>,
                       res |-> TList(TEl("li", <<>>, <<>>))]
    [] f = "boomB" -> [body |-> << Rd("B"), ThrowIf(1) >>, res |-> TAcc]
    [] f = "visible" -> [body |-> << Rd("A") >>, res |-> TAnd(TComp("ChildComponent"))]

\* the components: (props, ...children) => { statements; return expression }
Comp(c) ==
  CASE c = "Conditional" ->
         [pre |-> <<>>,
          tpl |-> TEl("div", <<>>,
                      << TEl("button", << Prop("onClick", VFn("setShow")) >>, <<>>),
                         TEl("button", << Prop("onClick", VFn("setTheme")) >>, <<>>),
                         TFn("showP"),
                         TFn("theme"),
                         TFn("andP") >>)]
    [] c = "Mixed" ->
         [pre |-> <<>>,
          tpl |-> TEl("div", <<>>,
                      << TStr("a"), TFn("showP"), TEl("hr", <<>>, <<>>), TFn("txtB") >>)]
    [] c = "EffectsExample" ->
         [pre |-> << Eff("cntA") >>,
          tpl |-> TEl("div", <<>>,
                      << TEl("input", << Prop("value", VFn("txtA")),
                                         Prop("onInput", VFn("setName")),
                                         Prop("type", VStr("text")) >>, <<>>),
                         TEl("p", <<>>, << TStr("Current name: "), TFn("txtA") >>) >>)]
    [] c = "Isolation" ->
         [pre |-> <<>>,
          tpl |-> TFrag(<< TEl("div", <<>>, <<>>), TComp("Bad"), TEl("div", <<>>, <<>>) >>)]
    [] c = "Bad" ->
         [pre |-> << ThrowIf(0) >>, tpl |-> TNull]
    [] c = "List" ->
         [pre |-> <<>>,
          tpl |-> TEl("ul", <<>>, << TFn("listB"), TFn("boomB") >>)]
    [] c = "Awaited" ->
         [pre |-> <<>>,
          tpl |-> TEl("div", <<>>, << TFn("showP"), TThen("data") >>)]
    [] c = "RefsExample" ->
         [pre |-> <<>>,
          tpl |-> TEl("div", <<>>,
                      << TEl("input", << Prop("ref", VFn("inputRef")),
                                         Prop("type", VStr("text")),
                                         Prop("placeholder", VStr("Focus me!")) >>, <<>>),
                         TEl("button", << Prop("onClick", VFn("focus")) >>,
                             << TStr("Focus Input") >>) >>)]
    [] c = "Fragile" ->
         [pre |-> << Rd("A"), ThrowIf(1) >>,
          tpl |-> TEl("p", <<>>, << TStr("fine") >>)]
    [] c = "Counter" ->
         [pre |-> <<>>,
          tpl |-> TEl("button", <<>>, << TFn("txtA") >>)]
    [] c = "LifecycleExample" ->
         [pre |-> <<>>,
          tpl |-> TEl("div", <<>>, << TFn("visible") >>)]
    [] c = "ChildComponent" ->
         [pre |-> << OnMountOf("mountFunction"), OnUnmountOf("cleanupFunction") >>,
          tpl |-> TEl("div", <<>>, << TStr("Hello World") >>)]
    [] c = "Watcher" ->
         [pre |-> << Eff("boomA") >>,
          tpl |-> TEl("p", <<>>, << TStr("watching") >>)]
    [] c = "Zero"  -> [pre |-> <<>>, tpl |-> TLit(VNum(0))]
    [] c = "One"   -> [pre |-> <<>>, tpl |-> TLit(VNum(1))]
    [] c = "Blank" -> [pre |-> <<>>, tpl |-> TStr("")]
    [] c = "Word"  -> [pre |-> <<>>, tpl |-> TStr("word")]
    [] c = "No"    -> [pre |-> <<>>, tpl |-> TLit(VBool(FALSE))]
    [] c = "Yes"   -> [pre |-> <<>>, tpl |-> TLit(VBool(TRUE))]
    [] c = "Para"  -> [pre |-> <<>>, tpl |-> TEl("p", <<>>, << TStr("fine") >>)]
    [] c = "Many"  ->
         [pre |-> <<>>,
          tpl |-> TArr(<< TEl("p", <<>>, <<>>),
                          TArr(<< TStr("b"), TLit(VNum(1)) >>),
                          TEl("hr", <<>>, <<>>) >>)]

\* the components a program mounts
Apps == {"Conditional", "Mixed", "EffectsExample", "Isolation", "Bad", "List"}

\* the expressions a program builds with html outside render
TopTemplates ==
  { Comp("Isolation").tpl,
    TComp("Bad"),
    TEl("<", <<>>, <<>>),
    TEl("circle", << Prop("r", VNum(1)), Prop("focusable", VBool(FALSE)) >>, <<>>),
    TEl("input", << Prop("disabled", VBool(TRUE)),
                    Prop("hidden", VBool(FALSE)),
                    Prop("class", VBool(FALSE)) >>, <<>>) }

----------------------------------------------------------------------------
(* setSignal: the read accessor *)

\* Getter without the registration of the current effect
GetterUntracked(st, s, self) ==
  LET st2 == IF self # None
               THEN [st EXCEPT !.effs[self].reads = @ \cup {s}]
               ELSE st
  IN  Res(Ev(st2, EvRead(s, st.val[s], self, st.cur)), "ok", st.val[s])

\* Getter that registers the effect whose body makes the read, whatever the
\* current effect is
GetterAddsReader(st, s, self) ==
  LET st1 == IF self # None
               THEN [st EXCEPT !.subs[s] = SetAdd(@, self),
                               !.effs[self].reads = @ \cup {s}]
               ELSE st
  IN  Res(Ev(st1, EvRead(s, st.val[s], self, st.cur)), "ok", st.val[s])

\* the read accessor (core.js:7-15)
Getter(st, s, self) ==
  LET st1 == IF st.cur # None
               THEN [st EXCEPT !.subs[s] = SetAdd(@, st.cur)]
               ELSE st
      st2 == IF self # None
               THEN [st1 EXCEPT !.effs[self].reads = @ \cup {s}]
               ELSE st1
  IN  Res(Ev(st2, EvRead(s, st.val[s], self, st.cur)), "ok", st.val[s])

\* the updater functions a program passes to a write accessor
Updater(f, x) ==
  CASE f = "inc"  -> [out |-> "ok", ret |-> Add(x, 1)]
    [] f = "boom" -> [out |-> "throw", ret |-> Undef]

\* Apply with the updater called without the previous value
ApplyNoPrevious(arg, old) ==
  IF arg.f = "lit" THEN [out |-> "ok", ret |-> arg.v] ELSE Updater(arg.f, Undef)

\* typeof newValue === "function" ? newValue(initialValue) : newValue
Apply(arg, old) ==
  IF arg.f = "lit" THEN [out |-> "ok", ret |-> arg.v] ELSE Updater(arg.f, old)

RECURSIVE Invoke(_, _)

\* FanOut without the try/catch around each subscriber
RECURSIVE FanOutNoCatch(_, _, _, _, _)
FanOutNoCatch(st, snap, i, c, d) ==
  IF i > Len(snap)
    THEN Res(st, "ok", Undef)
    ELSE LET r == Invoke("RunEffect", <<st, snap[i], c, d>>)
         IN  IF Unwinds(r) \/ r.out = "throw"
               THEN r
               ELSE FanOutNoCatch(r.st, snap, i + 1, c, d)

\* FanOut over the subscriber set itself, subscribers.forEach, which also
\* visits the effects that join the set while it is being iterated
FanOutLive(st, snap, i, c, d) ==
  LET k == CHOOSE j \in 1 .. Len(st.log) : st.log[j].t = "assign" /\ st.log[j].c = c
      live == st.subs[st.log[k].s]
  IN  IF i > Len(live)
        THEN Res(st, "ok", Undef)
        ELSE LET r == Invoke("RunEffect", <<st, live[i], c, d>>)
             IN  IF Unwinds(r) THEN r ELSE Invoke("FanOut", <<r.st, snap, i + 1, c, d>>)

(* setSignal: the write accessor's forEach over the snapshot [...subscribers] *)
FanOut(st, snap, i, c, d) ==
  IF i > Len(snap)
    THEN Res(st, "ok", Undef)
    ELSE LET r == Invoke("RunEffect", <<st, snap[i], c, d>>)
         IN  IF Unwinds(r) THEN r ELSE Invoke("FanOut", <<r.st, snap, i + 1, c, d>>)

\* Setter that notifies nobody when the value does not change
SetterSkipsEqual(st, s, arg, self, d) ==
  LET a == Apply(arg, st.val[s])
      c == st.calls + 1
      st0 == [st EXCEPT !.calls = c]
  IN  IF a.out = "throw"
        THEN Res(Ev(st0, EvThrow(s, c, st.cur)), "throw", Undef)
        ELSE LET st1 == Ev([st0 EXCEPT !.val[s] = a.ret], EvAssign(s, a.ret, c, st.cur))
                 r == IF a.ret = st.val[s]
                        THEN Res(st1, "ok", Undef)
                        ELSE Invoke("FanOut", <<st1, st1.subs[s], 1, c, d>>)
             IN  IF Unwinds(r)
                   THEN r
                   ELSE Res(Ev(r.st, EvRet(s, r.st.val[s], c, r.st.cur)), "ok", r.st.val[s])

\* Setter that invokes the subscribers before it assigns the new value
SetterNotifiesFirst(st, s, arg, self, d) ==
  LET a == Apply(arg, st.val[s])
      c == st.calls + 1
      st0 == [st EXCEPT !.calls = c]
  IN  IF a.out = "throw"
        THEN Res(Ev(st0, EvThrow(s, c, st.cur)), "throw", Undef)
        ELSE LET r == Invoke("FanOut", <<st0, st0.subs[s], 1, c, d>>)
             IN  IF Unwinds(r)
                   THEN r
                   ELSE LET st1 == Ev([r.st EXCEPT !.val[s] = a.ret],
                                      EvAssign(s, a.ret, c, r.st.cur))
                        IN  Res(Ev(st1, EvRet(s, a.ret, c, st1.cur)), "ok", a.ret)

\* Setter that takes the previous value from the read accessor, which makes
\* the current effect a subscriber of the signal it writes
SetterThroughGetter(st, s, arg, self, d) ==
  LET g == Getter(st, s, self).st
      a == Apply(arg, g.val[s])
      c == g.calls + 1
      st0 == [g EXCEPT !.calls = c]
  IN  IF a.out = "throw"
        THEN Res(Ev(st0, EvThrow(s, c, st.cur)), "throw", Undef)
        ELSE LET st1 == Ev([st0 EXCEPT !.val[s] = a.ret], EvAssign(s, a.ret, c, st.cur))
                 r == Invoke("FanOut", <<st1, st1.subs[s], 1, c, d>>)
             IN  IF Unwinds(r)
                   THEN r
                   ELSE Res(Ev(r.st, EvRet(s, r.st.val[s], c, r.st.cur)), "ok", r.st.val[s])

\* Setter whose fan-out is outside the try: the subscribers are invoked even
\* when the updater function threw, and then the error is rethrown
SetterNotifiesAnyway(st, s, arg, self, d) ==
  LET a == Apply(arg, st.val[s])
      c == st.calls + 1
      st0 == [st EXCEPT !.calls = c]
      st1 == IF a.out = "throw"
               THEN st0
               ELSE Ev([st0 EXCEPT !.val[s] = a.ret], EvAssign(s, a.ret, c, st.cur))
      r == Invoke("FanOut", <<st1, st1.subs[s], 1, c, d>>)
  IN  CASE Unwinds(r) -> r
        [] a.out = "throw" -> Res(Ev(r.st, EvThrow(s, c, r.st.cur)), "throw", Undef)
        [] OTHER -> Res(Ev(r.st, EvRet(s, r.st.val[s], c, r.st.cur)), "ok", r.st.val[s])

(* setSignal: the write accessor.  The updater may throw, and so, were it  *)
(* not for FanOut's own catch, may the fan-out: the outer catch rethrows.  *)
Setter(st, s, arg, self, d) ==
  LET a == Apply(arg, st.val[s])
      c == st.calls + 1
      st0 == [st EXCEPT !.calls = c]
  IN  IF a.out = "throw"
        THEN Res(Ev(st0, EvThrow(s, c, st.cur)), "throw", Undef)
        ELSE LET st1 == Ev([st0 EXCEPT !.val[s] = a.ret], EvAssign(s, a.ret, c, st.cur))
                 r == Invoke("FanOut", <<st1, st1.subs[s], 1, c, d>>)
             IN  CASE Unwinds(r) -> r
                   [] r.out = "throw" -> Res(Ev(r.st, EvThrow(s, c, r.st.cur)), "throw", Undef)
                   [] OTHER -> Res(Ev(r.st, EvRet(s, r.st.val[s], c, r.st.cur)),
                                   "ok", r.st.val[s])

\* RunEffect with dependency cleanup: before a run the effect is taken out of
\* every subscriber set, so that it stays subscribed only to what the run reads
RunEffectForgets(st, e, c, d) ==
  IF d = 0
    THEN Res(st, "div", Undef)
    ELSE LET st0 == [st EXCEPT !.subs["A"] = Without(st.subs["A"], e),
                               !.subs["B"] = Without(st.subs["B"], e),
                               !.subs["M1"] = Without(st.subs["M1"], e),
                               !.subs["M2"] = Without(st.subs["M2"], e)]
             st1 == Ev([st0 EXCEPT !.cur = e,
                                   !.effs[e].runs = @ + 1,
                                   !.effs[e].reads = {}],
                       EvRun(e, c))
             r == Invoke("EffectFunction", <<st1, e, d - 1>>)
         IN  IF Unwinds(r)
               THEN r
               ELSE Res(Ev([r.st EXCEPT !.cur = None], EvExit(e, c, r.out = "throw", None)),
                        r.out, r.ret)

\* RunEffect without the finally: currentEffect is cleared only when the body
\* returns
RunEffectNoFinally(st, e, c, d) ==
  IF d = 0
    THEN Res(st, "div", Undef)
    ELSE LET st1 == Ev([st EXCEPT !.cur = e,
                                  !.effs[e].runs = @ + 1,
                                  !.effs[e].reads = {}],
                       EvRun(e, c))
             r == Invoke("EffectFunction", <<st1, e, d - 1>>)
         IN  CASE Unwinds(r) -> r
               [] r.out = "throw" -> Res(Ev(r.st, EvExit(e, c, TRUE, r.st.cur)), r.out, r.ret)
               [] OTHER -> Res(Ev([r.st EXCEPT !.cur = None], EvExit(e, c, FALSE, None)),
                               r.out, r.ret)

\* RunEffect that puts back the effect that was current when the run began
RunEffectRestores(st, e, c, d) ==
  IF d = 0
    THEN Res(st, "div", Undef)
    ELSE LET st1 == Ev([st EXCEPT !.cur = e,
                                  !.effs[e].runs = @ + 1,
                                  !.effs[e].reads = {}],
                       EvRun(e, c))
             r == Invoke("EffectFunction", <<st1, e, d - 1>>)
         IN  IF Unwinds(r)
               THEN r
               ELSE Res(Ev([r.st EXCEPT !.cur = st.cur], EvExit(e, c, r.out = "throw", st.cur)),
                        r.out, r.ret)

\* RunEffect with a guard: an effect that is the current one is not run again
RunEffectGuarded(st, e, c, d) ==
  IF st.cur = e
    THEN Res(st, "ok", Undef)
    ELSE IF d = 0
           THEN Res(st, "div", Undef)
           ELSE LET st1 == Ev([st EXCEPT !.cur = e,
                                         !.effs[e].runs = @ + 1,
                                         !.effs[e].reads = {}],
                              EvRun(e, c))
                    r == Invoke("EffectFunction", <<st1, e, d - 1>>)
                IN  IF Unwinds(r)
                      THEN r
                      ELSE Res(Ev([r.st EXCEPT !.cur = None], EvExit(e, c, r.out = "throw", None)),
                               r.out, r.ret)

\* RunEffect that unsubscribes an effect whose run throws: the catch takes it
\* out of every subscriber set
RunEffectDropsFailed(st, e, c, d) ==
  IF d = 0
    THEN Res(st, "div", Undef)
    ELSE LET st1 == Ev([st EXCEPT !.cur = e,
                                  !.effs[e].runs = @ + 1,
                                  !.effs[e].reads = {}],
                       EvRun(e, c))
             r == Invoke("EffectFunction", <<st1, e, d - 1>>)
             st2 == [r.st EXCEPT !.cur = None,
                                 !.effs[e].failed = @ \/ r.out = "throw"]
             st3 == [st2 EXCEPT !.subs["A"] = Without(st2.subs["A"], e),
                                !.subs["B"] = Without(st2.subs["B"], e),
                                !.subs["M1"] = Without(st2.subs["M1"], e),
                                !.subs["M2"] = Without(st2.subs["M2"], e)]
         IN  IF Unwinds(r)
               THEN r
               ELSE Res(Ev(IF r.out = "throw" THEN st3 ELSE st2,
                           EvExit(e, c, r.out = "throw", None)),
                        r.out, r.ret)

(* setEffect: the closure runEffect *)
RunEffect(st, e, c, d) ==
  IF d = 0
    THEN Res(st, "div", Undef)
    ELSE LET st1 == Ev([st EXCEPT !.cur = e,
                                  !.effs[e].runs = @ + 1,
                                  !.effs[e].reads = {}],
                       EvRun(e, c))
             r == Invoke("EffectFunction", <<st1, e, d - 1>>)
         IN  IF Unwinds(r)
               THEN r
               ELSE Res(Ev([r.st EXCEPT !.cur = None,
                                        !.effs[e].failed = @ \/ r.out = "throw"],
                           EvExit(e, c, r.out = "throw", None)),
                        r.out, r.ret)

(* onMount and onUnmount (core.js:364-386) *)

\* console.error in a callback that swallows the error
EvReport(f) == [t |-> "report", e |-> 0, s |-> f, v |-> 0, c |-> 0, x |-> 0]

\* the callback onMount gives queueMicrotask: mountFunction, in a try/catch
MountCallback(st, f, self, d) ==
  LET r == Invoke("Exec", <<[st EXCEPT !.counts.mounted = @ + 1], Body(f), 0, self, d>>)
  IN  CASE Unwinds(r) -> r
        [] r.out = "throw" -> Res(Ev(r.st, EvReport(f)), "ok", Undef)
        [] OTHER -> Res(r.st, "ok", Undef)

\* the function onUnmount's effect returns: cleanupFunction, in a try/catch
CleanupCallback(st, f, self, d) ==
  LET r == Invoke("Exec", <<[st EXCEPT !.counts.cleaned = @ + 1], Body(f), 0, self, d>>)
  IN  CASE Unwinds(r) -> r
        [] r.out = "throw" -> Res(Ev(r.st, EvReport(f)), "ok", Undef)
        [] OTHER -> Res(r.st, "ok", Undef)

\* MountEffect with the function called at once, not in a microtask
MountEffectSync(st, e, d) == MountCallback(st, st.effs[e].body, e, d)

\* the effect of onMount: queueMicrotask(callback)
MountEffect(st, e, d) ==
  Res([st EXCEPT !.queue = Append(st.queue, MountJob(st.effs[e].body))], "ok", Undef)

\* UnmountEffect with the cleanup called by the effect itself
UnmountEffectRuns(st, e, d) == CleanupCallback(st, st.effs[e].body, e, d)

\* the effect of onUnmount: it returns the cleanup, which runEffect returns to
\* its caller
UnmountEffect(st, e, d) == Res(st, "ok", VFn(st.effs[e].body))

\* EffectFunction with a memo that is reset to undefined when its function throws
EffectFunctionResets(st, e, d) ==
  LET ef == st.effs[e]
  IN  CASE ef.kind = "plain" -> Invoke("Exec", <<st, Body(ef.body), 0, e, d>>)
        [] ef.kind = "memo" ->
             LET r == Invoke("Exec", <<st, Body(ef.body), 0, e, d>>)
             IN  IF Unwinds(r)
                   THEN r
                   ELSE IF r.out = "throw"
                          THEN [r EXCEPT !.st.val[ef.body] = Undef]
                          ELSE Invoke("Setter", <<r.st, ef.body, Lit(r.ret), e, d>>)
        [] ef.kind = "child" -> Invoke("ChildEffect", <<st, e, d>>)
        [] ef.kind = "mount" -> MountEffect(st, e, d)
        [] ef.kind = "unmount" -> UnmountEffect(st, e, d)

(* the effectFunction of a closure: what setEffect was called with *)
EffectFunction(st, e, d) ==
  LET ef == st.effs[e]
  IN  CASE ef.kind = "plain" -> Invoke("Exec", <<st, Body(ef.body), 0, e, d>>)
        [] ef.kind = "memo" ->
             LET r == Invoke("Exec", <<st, Body(ef.body), 0, e, d>>)
             IN  IF r.out # "ok" THEN r ELSE Invoke("Setter", <<r.st, ef.body, Lit(r.ret), e, d>>)
        [] ef.kind = "child" -> Invoke("ChildEffect", <<st, e, d>>)
        [] ef.kind = "mount" -> MountEffect(st, e, d)
        [] ef.kind = "unmount" -> UnmountEffect(st, e, d)

\* onMount(mountFunction)
OnMount(st, f, d) ==
  Invoke("SetEffect", <<[st EXCEPT !.counts.onMount = @ + 1],
                        NewEffect("mount", f, NoNode, NoNode), d>>)

\* onUnmount(cleanupFunction)
OnUnmount(st, f, d) ==
  Invoke("SetEffect", <<[st EXCEPT !.counts.onUnmount = @ + 1],
                        NewEffect("unmount", f, NoNode, NoNode), d>>)

(* a callback's body, statement by statement *)
Exec(st, ins, acc, self, d) ==
  IF ins = <<>>
    THEN Res(st, "ok", acc)
    ELSE LET i == Head(ins)
             rest == Tail(ins)
         IN  CASE i.op = "read" ->
                    LET g == Getter(st, i.s, self)
                    IN  Invoke("Exec", <<g.st, rest, Add(acc, g.ret), self, d>>)
               [] i.op = "stopIf" ->
                    IF acc = i.v THEN Res(st, "ok", acc) ELSE Invoke("Exec", <<st, rest, acc, self, d>>)
               [] i.op = "stopUnl" ->
                    IF acc # i.v THEN Res(st, "ok", acc) ELSE Invoke("Exec", <<st, rest, acc, self, d>>)
               [] i.op = "throwIf" ->
                    IF acc = i.v THEN Res(st, "throw", Undef) ELSE Invoke("Exec", <<st, rest, acc, self, d>>)
               [] i.op = "write" ->
                    LET arg == IF i.f = "acc" THEN Lit(acc) ELSE [f |-> i.f, v |-> i.v]
                        w == Invoke("Setter", <<st, i.s, arg, self, d>>)
                    IN  IF w.out # "ok" THEN w ELSE Invoke("Exec", <<w.st, rest, acc, self, d>>)
               [] i.op = "effect" ->
                    LET r == Invoke("SetEffect", <<st, NewEffect("plain", i.f, NoNode, NoNode), d>>)
                    IN  IF Unwinds(r) THEN r ELSE Invoke("Exec", <<r.st, rest, acc, self, d>>)
               [] i.op = "onMount" ->
                    LET r == OnMount(st, i.f, d)
                    IN  IF Unwinds(r) THEN r ELSE Invoke("Exec", <<r.st, rest, acc, self, d>>)
               [] i.op = "onUnmount" ->
                    LET r == OnUnmount(st, i.f, d)
                    IN  IF Unwinds(r) THEN r ELSE Invoke("Exec", <<r.st, rest, acc, self, d>>)

\* SetEffect without the try/catch around the first run
SetEffectNoCatch(st, ef, d) ==
  IF Len(st.effs) >= MaxEffs
    THEN Res(st, "ovf", Undef)
    ELSE LET e == Len(st.effs) + 1
             st1 == [st EXCEPT !.effs = Append(@, ef)]
         IN  Invoke("RunEffect", <<st1, e, 0, d>>)

(* setEffect *)
SetEffect(st, ef, d) ==
  IF Len(st.effs) >= MaxEffs
    THEN Res(st, "ovf", Undef)
    ELSE LET e == Len(st.effs) + 1
             st1 == [st EXCEPT !.effs = Append(@, ef)]
             r == Invoke("RunEffect", <<st1, e, 0, d>>)
         IN  IF Unwinds(r) THEN r ELSE Res(r.st, "ok", Undef)

(* setMemo *)
SetMemo(st, m, d) == Invoke("SetEffect", <<st, NewEffect("memo", m, NoNode, NoNode), d>>)

----------------------------------------------------------------------------
(* html.appendChild: the reactive child's effect (core.js:205-248) *)

\* FillFragment that binds each entry as html binds the child of an element:
\* a function becomes a reactive child
RECURSIVE FillFragmentBinds(_, _, _, _, _)
FillFragmentBinds(st, frag, items, i, self) ==
  IF i > Len(items)
    THEN st
    ELSE FillFragmentBinds(Invoke("AppendChild", <<st, frag, items[i], self, MaxDepth>>).st,
                           frag, items, i + 1, self)

\* the text node or the node a collection entry becomes in a fragment
RECURSIVE FillFragment(_, _, _, _, _)
FillFragment(st, frag, items, i, self) ==
  IF i > Len(items)
    THEN st
    ELSE LET x == items[i]
         IN  IF IsNullish(x)
               THEN FillFragment(st, frag, items, i + 1, self)
               ELSE IF x.k = "node"
                      THEN FillFragment([st EXCEPT !.dom = DomAppend(st.dom, frag, x.n)],
                                        frag, items, i + 1, self)
                      ELSE LET st1 == CreateNode(st, NewNode("text", "", "", StringOf(x), self))
                               t == Newest(st1)
                           IN  FillFragment([st1 EXCEPT !.dom = DomAppend(st1.dom, frag, t)],
                                            frag, items, i + 1, self)

\* while (placeholderNode.nextSibling)
\*   parentElement.removeChild(placeholderNode.nextSibling)
\* removeChild throws when the node is not a child of parentElement
RECURSIVE RemoveFollowing(_, _, _)
RemoveFollowing(dm, par, ph) ==
  LET nx == NextSibling(dm, ph)
  IN  IF nx = NoNode
        THEN [dom |-> dm, out |-> "ok"]
        ELSE IF ~Member(nx, dm[par].kids)
               THEN [dom |-> dm, out |-> "throw"]
               ELSE RemoveFollowing(DomRemove(dm, par, nx), par, ph)

\* a removal loop and an insertion that run only while placeholderNode is
\* still a child of parentElement
ReplaceRegionAttachedOnly(st, e, n) ==
  LET par == st.effs[e].par
      ph == st.effs[e].ph
      rm == RemoveFollowing(st.dom, par, ph)
      nx == NextSibling(rm.dom, ph)
  IN  IF ~Member(ph, st.dom[par].kids)
        THEN Res([st EXCEPT !.effs[e].shown = <<>>], "ok", Undef)
        ELSE IF rm.out = "throw" \/ (nx # NoNode /\ ~Member(nx, rm.dom[par].kids))
               THEN Res([st EXCEPT !.dom = rm.dom], "throw", Undef)
               ELSE Res([st EXCEPT !.dom = DomInsert(rm.dom, par, n, nx),
                                   !.effs[e].shown = Inserted(rm.dom, n)],
                        "ok", Undef)

\* the removal loop, then parentElement.insertBefore(n, placeholderNode.nextSibling);
\* insertBefore throws when the reference node is not a child of parentElement
ReplaceRegion(st, e, n) ==
  LET par == st.effs[e].par
      ph == st.effs[e].ph
      rm == RemoveFollowing(st.dom, par, ph)
      nx == NextSibling(rm.dom, ph)
  IN  IF rm.out = "throw" \/ (nx # NoNode /\ ~Member(nx, rm.dom[par].kids))
        THEN Res([st EXCEPT !.dom = rm.dom], "throw", Undef)
        ELSE Res([st EXCEPT !.dom = DomInsert(rm.dom, par, n, nx),
                            !.effs[e].shown = Inserted(rm.dom, n),
                            !.effs[e].loose =
                              IF Member(ph, st.dom[par].kids) THEN @ ELSE @ + 1],
                 "ok", Undef)

\* `Error: ${error.message}`
ErrorText == "Error: boom"

\* ShowText with a new text node for every result, appended to the parent
ShowTextAppends(st, e, text) ==
  LET st1 == CreateNode(st, NewNode("text", "", "", text, e))
  IN  Res([st1 EXCEPT !.dom = DomAppend(st1.dom, st.effs[e].par, Newest(st1)),
                      !.effs[e].shown = <<>>],
          "ok", Undef)

\* placeholderNode.textContent = text
ShowText(st, e, text) ==
  Res([st EXCEPT !.dom[st.effs[e].ph].text = text, !.effs[e].shown = <<>>], "ok", Undef)

ChildEffect(st, e, d) ==
  LET r == Invoke("CallFn", <<st, st.effs[e].body, e, d>>)
  IN  IF Unwinds(r)
        THEN r
        ELSE IF r.out = "throw"
               THEN ShowText(r.st, e, ErrorText)
               ELSE LET x == r.ret
                    IN  CASE IsNullish(x) -> ShowText(r.st, e, "")
                          [] x.k = "arr" ->
                               LET st1 == CreateNode(r.st, NewNode("frag", "", "", "", e))
                                   frag == Newest(st1)
                                   st2 == FillFragment(st1, frag, Flat(x.items), 1, e)
                                   rp == ReplaceRegion(st2, e, frag)
                               IN  IF rp.out = "throw"
                                     THEN ShowText(rp.st, e, ErrorText)
                                     ELSE rp
                          [] x.k = "node" ->
                               LET rp == ReplaceRegion(r.st, e, x.n)
                               IN  IF rp.out = "throw"
                                     THEN ShowText(rp.st, e, ErrorText)
                                     ELSE rp
                          [] OTHER -> ShowText(r.st, e, StringOf(x))

\* a callable child is called: its statements, then its expression
CallFn(st, f, self, d) ==
  LET r == Invoke("Exec", <<st, Callable(f).body, 0, self, d>>)
  IN  IF r.out # "ok" THEN r ELSE Invoke("Build", <<r.st, Callable(f).res, r.ret, self, d>>)

----------------------------------------------------------------------------
(* html.appendChild (core.js:188-282) *)

EvFn(t, f, n) == [t |-> t, e |-> 0, s |-> f, v |-> n, c |-> 0, x |-> 0]

\* what is kept of the children appendChild gave the element p
Given(dm, p, ns) == [dm EXCEPT ![p].built = @ \o ns]

\* childElement.then(...).catch(...): the reaction waits, or, the promise
\* being settled, is queued at once
Then(st, p, w) ==
  IF st.proms[p].state = "pending"
    THEN [st EXCEPT !.proms[p].waits = Append(@, w)]
    ELSE [st EXCEPT !.queue = Append(@, Reaction(w, st.proms[p].state, st.proms[p].x))]

\* what is kept of a reaction's DOM write: the placeholder, its parent and
\* the value (its kind; the node or the number)
EvSettled(t, job) ==
  [t |-> t, e |-> job.ph, s |-> IF t = "then" THEN job.x.k ELSE "",
   v |-> IF t = "then" THEN job.x.v ELSE 0, c |-> job.par,
   x |-> IF t = "then" THEN job.x.n ELSE 0]

\* `Error: ${error.message}` for the error of replaceChild
NotChildText == "Error: The node to be replaced is not a child of this node."

\* onFulfilled (core.js:258-269); replaceChild throws when the placeholder is
\* not a child of parentElement
ThenCallback(st, job) ==
  IF job.x.k = "node"
    THEN IF Member(job.ph, st.dom[job.par].kids)
           THEN LET dm == DomInsert(st.dom, job.par, job.x.n, job.ph)
                IN  Res(Ev([st EXCEPT !.dom = DomRemove(dm, job.par, job.ph)],
                           EvSettled("then", job)), "ok", Undef)
           ELSE Res(Ev([st EXCEPT !.dom[job.ph].text = NotChildText],
                       EvSettled("then", job)), "ok", Undef)
    ELSE Res(Ev([st EXCEPT !.dom[job.ph].text = StringOf(job.x)],
                EvSettled("then", job)), "ok", Undef)

\* onRejected (core.js:270-273)
CatchCallback(st, job) ==
  Res(Ev([st EXCEPT !.dom[job.ph].text = ErrorText], EvSettled("catch", job)),
      "ok", Undef)

\* the body of appendChild's try
AppendChildTry(st, p, child, self, d) ==
  IF IsNullish(child)
    THEN Res(st, "ok", Undef)
    ELSE CASE child.k = "arr" -> Invoke("AppendAll", <<st, p, Flat(child.items), 1, self, d>>)
           [] child.k = "node" ->
                Res([st EXCEPT !.dom = Given(DomAppend(st.dom, p, child.n), p,
                                             Inserted(st.dom, child.n))],
                    "ok", Undef)
           [] child.k = "fn" ->
                LET st1 == CreateNode(st, NewNode("text", "", "", "", self))
                    ph == Newest(st1)
                    st2 == Ev([st1 EXCEPT !.dom = Given(DomAppend(st1.dom, p, ph), p, <<ph>>)],
                              EvFn("fnchild", child.f, p))
                IN  Invoke("SetEffect", <<st2, NewEffect("child", child.f, ph, p), d>>)
           [] child.k = "then" ->
                LET st1 == CreateNode(st, NewNode("text", "", "", "", self))
                    ph == Newest(st1)
                    st2 == [st1 EXCEPT !.dom = Given(DomAppend(st1.dom, p, ph), p, <<ph>>)]
                IN  Res(Then(st2, child.f, [ph |-> ph, par |-> p]), "ok", Undef)
           [] child.k = "bad" -> Res(st, "throw", Undef)
           [] OTHER ->
                LET st1 == CreateNode(st, NewNode("text", "", "", StringOf(child), self))
                    t == Newest(st1)
                IN  Res([st1 EXCEPT !.dom = Given(DomAppend(st1.dom, p, t), p, <<t>>)],
                        "ok", Undef)

\* AppendChild without its try/catch
AppendChildNoCatch(st, p, child, self, d) == AppendChildTry(st, p, child, self, d)

\* appendChild: what its try throws is reported and goes no further
AppendChild(st, p, child, self, d) ==
  LET r == AppendChildTry(st, p, child, self, d)
  IN  IF r.out = "throw"
        THEN Res(Ev(r.st, EvReport("appendChild")), "ok", Undef)
        ELSE r

\* children.forEach((child) => appendChild(element, child))
AppendAll(st, p, children, i, self, d) ==
  IF i > Len(children)
    THEN Res(st, "ok", Undef)
    ELSE LET r == Invoke("AppendChild", <<st, p, children[i], self, d>>)
         IN  IF r.out # "ok" THEN r ELSE Invoke("AppendAll", <<r.st, p, children, i + 1, self, d>>)

----------------------------------------------------------------------------
(* html (core.js:74-290) *)

SVG_TAGS ==
  {"svg", "path", "circle", "rect", "line", "polygon", "polyline", "ellipse",
   "g", "text", "defs", "filter", "mask", "marker", "pattern", "linearGradient",
   "radialGradient", "stop", "use", "clipPath", "textPath", "tspan",
   "foreignObject"}

\* IsSvgElement that also takes the names SVG shares with HTML
IsSvgElementShared(tagName) == tagName \in SVG_TAGS \cup {"a", "title"}

\* SVG_TAGS.has(tagName)
IsSvgElement(tagName) == tagName \in SVG_TAGS

\* the names document.createElement accepts, of those the programs use
ValidTag(tag) == tag # "<"

\* propertyName.slice(2).toLowerCase()
EventName(name) ==
  CASE name = "onClick" -> "click"
    [] name = "onInput" -> "input"
    [] OTHER -> name

StartsWithOn(name) == name \in {"onClick", "onInput"}

\* Accessor that stores whatever it is given
AccessorStoresAny(st, r, args) ==
  IF args = <<>>
    THEN Res(st, "ok", st.refs[r])
    ELSE Res([st EXCEPT !.refs[r] = args[1]], "ok", args[1])

\* the function setRef returns, called with the arguments args (core.js:358-361):
\* a parameter that is not given is undefined
Accessor(st, r, args) ==
  LET element == IF args = <<>> THEN VUndef ELSE args[1]
      st1 == IF element # VUndef THEN [st EXCEPT !.refs[r] = element] ELSE st
  IN  Res(st1, "ok", st1.refs[r])

\* what is kept of a prop: that a function was given for the element n
Passed(st, n, x) == IF x.k = "fn" THEN Ev(st, EvFn("fnprop", x.f, n)) ELSE st

\* ApplyProp without the branch for booleans: a boolean is set as its string
ApplyPropNoBoolean(st, n, isSvg, name, x) ==
  CASE IsNullish(x) -> st
    [] name = "value" ->
         Passed([st EXCEPT !.dom[n].value = StringOf(x)], n, x)
    [] name \in {"className", "class"} ->
         [st EXCEPT !.dom = SetAttr(st.dom, n, "class", StringOf(x))]
    [] name = "ref" ->
         IF x.k = "fn" /\ x.f \in Refs
           THEN Passed(Accessor(st, x.f, << VNode(n) >>).st, n, x)
           ELSE st
    [] StartsWithOn(name) ->
         [st EXCEPT !.dom[n].on = @ \cup {<<EventName(name), x.f>>}]
    [] OTHER ->
         Passed([st EXCEPT !.dom = SetAttr(st.dom, n, name, StringOf(x))], n, x)

\* one entry of properties (core.js:133-184)
ApplyProp(st, n, isSvg, name, x) ==
  CASE IsNullish(x) -> st
    [] name = "value" ->
         Passed([st EXCEPT !.dom[n].value = StringOf(x)], n, x)
    [] name \in {"className", "class"} ->
         [st EXCEPT !.dom = SetAttr(st.dom, n, "class", StringOf(x))]
    [] name = "ref" ->
         IF x.k = "fn" /\ x.f \in Refs
           THEN Passed(Accessor(st, x.f, << VNode(n) >>).st, n, x)
           ELSE st
    [] StartsWithOn(name) ->
         [st EXCEPT !.dom[n].on = @ \cup {<<EventName(name), x.f>>}]
    [] isSvg -> [st EXCEPT !.dom = SetAttr(st.dom, n, name, StringOf(x))]
    [] x.k = "bool" ->
         IF x.v = 1
           THEN [st EXCEPT !.dom = SetAttr(st.dom, n, name, "")]
           ELSE [st EXCEPT !.dom = RemoveAttr(st.dom, n, name)]
    [] OTHER ->
         Passed([st EXCEPT !.dom = SetAttr(st.dom, n, name, StringOf(x))], n, x)

RECURSIVE ApplyProps(_, _, _, _, _)
ApplyProps(st, n, isSvg, props, i) ==
  IF i > Len(props)
    THEN st
    ELSE ApplyProps(ApplyProp(st, n, isSvg, props[i].name, props[i].val),
                    n, isSvg, props, i + 1)

\* the tag argument of html
TagName(name) == [k |-> "name", name |-> name]
TagComp(c) == [k |-> "comp", name |-> c]
TagFragment == [k |-> "frag", name |-> ""]

CommentNode(st, text, self) ==
  LET st1 == CreateNode(st, NewNode("comment", "", "", text, self))
  IN  Res(st1, "ok", VNode(Newest(st1)))

\* the body of html's outer try
HtmlTry(st, tag, props, children, self, d) ==
  CASE tag.k = "comp" ->
         LET r == Invoke("Component", <<st, tag.name, self, d>>)
         IN  IF r.out = "throw"
               THEN CommentNode(r.st, "Error in component: boom", self)
               ELSE r
    [] tag.k = "frag" ->
         LET st1 == CreateNode(st, NewNode("frag", "", "", "", self))
             frag == Newest(st1)
         IN  Res(FillFragment(st1, frag, Flat(children), 1, self), "ok", VNode(frag))
    [] OTHER ->
         IF ~ValidTag(tag.name)
           THEN Res(st, "throw", Undef)
           ELSE LET isSvg == IsSvgElement(tag.name)
                    st1 == CreateNode(st, NewNode("elem", tag.name,
                                                  IF isSvg THEN SvgNs ELSE HtmlNs, "", self))
                    el == Newest(st1)
                    st2 == ApplyProps(st1, el, isSvg, props, 1)
                    r == Invoke("AppendAll", <<st2, el, children, 1, self, d>>)
                IN  IF r.out # "ok" THEN r ELSE Res(r.st, "ok", VNode(el))

\* Html without its try/catch blocks
HtmlNoCatch(st, tag, props, children, self, d) ==
  IF tag.k = "comp"
    THEN Invoke("Component", <<st, tag.name, self, d>>)
    ELSE HtmlTry(st, tag, props, children, self, d)

Html(st, tag, props, children, self, d) ==
  LET r == HtmlTry(st, tag, props, children, self, d)
  IN  IF r.out = "throw"
        THEN CommentNode(r.st, "Error creating element: boom", self)
        ELSE r

\* a component function is called
Component(st, c, self, d) ==
  LET r == Invoke("Exec", <<st, Comp(c).pre, 0, self, d>>)
  IN  IF r.out # "ok" THEN r ELSE Invoke("Build", <<r.st, Comp(c).tpl, r.ret, self, d>>)

\* Array.from({ length: n }, () => x)
RECURSIVE Repeat(_, _)
Repeat(x, n) == IF n <= 0 THEN <<>> ELSE <<x>> \o Repeat(x, n - 1)

\* a JSX expression is evaluated: the children, left to right, then html
BuildKids(st, kids, i, vals, acc, self, d) ==
  IF i > Len(kids)
    THEN Res(st, "ok", vals)
    ELSE LET r == Invoke("Build", <<st, kids[i], acc, self, d>>)
         IN  IF r.out # "ok"
               THEN r
               ELSE Invoke("BuildKids", <<r.st, kids, i + 1, Append(vals, r.ret), acc, self, d>>)

Build(st, tpl, acc, self, d) ==
  CASE tpl.k = "fn"   -> Res(st, "ok", VFn(tpl.tag))
    [] tpl.k = "str"  -> Res(st, "ok", VStr(tpl.tag))
    [] tpl.k = "null" -> Res(st, "ok", VNull)
    [] tpl.k = "then" -> Res(st, "ok", VThen(tpl.tag))
    [] tpl.k = "acc"  -> Res(st, "ok", VNum(acc))
    [] tpl.k = "lit"  -> Res(st, "ok", tpl.props[1].val)
    [] tpl.k = "arr"  ->
         LET r == Invoke("BuildKids", <<st, tpl.kids, 1, <<>>, acc, self, d>>)
         IN  IF r.out # "ok" THEN r ELSE Res(r.st, "ok", VArr(r.ret))
    [] tpl.k = "and"  ->
         IF Falsy(VNum(acc)) THEN Res(st, "ok", VNum(acc)) ELSE Invoke("Build", <<st, tpl.kids[1], acc, self, d>>)
    [] tpl.k = "if"   ->
         IF Falsy(VNum(acc)) THEN Invoke("Build", <<st, tpl.kids[2], acc, self, d>>)
                             ELSE Invoke("Build", <<st, tpl.kids[1], acc, self, d>>)
    [] tpl.k = "list" ->
         LET r == Invoke("BuildKids", <<st, Repeat(tpl.kids[1], acc), 1, <<>>, acc, self, d>>)
         IN  IF r.out # "ok" THEN r ELSE Res(r.st, "ok", VArr(r.ret))
    [] tpl.k = "comp" -> Invoke("Html", <<st, TagComp(tpl.tag), <<>>, <<>>, self, d>>)
    [] tpl.k \in {"el", "frag"} ->
         LET r == Invoke("BuildKids", <<st, tpl.kids, 1, <<>>, acc, self, d>>)
         IN  IF r.out # "ok"
               THEN r
               ELSE Invoke("Html", <<r.st, IF tpl.k = "frag" THEN TagFragment ELSE TagName(tpl.tag),
                         tpl.props, r.ret, self, d>>)

----------------------------------------------------------------------------
(* render (core.js:292-354) *)

\* the rootElement argument: an element, or a selector that matches or not
RootNode == [k |-> "node", found |-> TRUE]
Selector(found) == [k |-> "sel", found |-> found]

\* the options argument; beforeRender "" is null, the default
Options(clear, hydrate) == [clear |-> clear, hydrate |-> hydrate, beforeRender |-> ""]
DefaultOptions == Options(TRUE, FALSE)
Hooked(options, h) == [options EXCEPT !.beforeRender = h]


\* the text node or node one entry of a collection becomes; falsy entries
\* are dropped
RECURSIVE FillTruthy(_, _, _, _)
FillTruthy(st, frag, items, i) ==
  IF i > Len(items)
    THEN st
    ELSE IF Falsy(items[i])
           THEN FillTruthy(st, frag, items, i + 1)
           ELSE FillTruthy(FillFragment(st, frag, <<items[i]>>, 1, None), frag, items, i + 1)

\* Cleared that looks at the clear option alone
ClearedIgnoresHydrate(st, options) ==
  IF options.clear
    THEN Ev([st EXCEPT !.dom = DomClear(st.dom, Root)], EvFn("clear", "", Root))
    ELSE st

\* if (clear && !hydrate) rootElement.textContent = ""
Cleared(st, options) ==
  IF options.clear /\ ~options.hydrate
    THEN Ev([st EXCEPT !.dom = DomClear(st.dom, Root)], EvFn("clear", "", Root))
    ELSE st

\* what the log keeps of a function that is given the root or is called to
\* give its content: the number of children the root has then
Sees(st, t, f) == Ev(st, EvFn(t, f, Len(st.dom[Root].kids)))

\* the beforeRender hook, called in a try/catch (core.js:308-314)
BeforeRender(st, h) ==
  CASE h = ""     -> st
    [] h = "fail" -> Ev(Sees(st, "hook", h), EvReport(h))
    [] OTHER      -> Sees(st, "hook", h)

\* ErrorNode that returns the element without appending it
ErrorNodeDetached(st) ==
  LET st1 == CreateNode(st, NewNode("elem", "div", HtmlNs, "Render Error: boom", None))
      en == Newest(st1)
  IN  Res([st1 EXCEPT !.dom = SetAttr(st1.dom, en, "class", "olova-error")], "ok", VNode(en))

\* the catch of a component that throws (core.js:319-326)
ErrorNode(st) ==
  LET st1 == CreateNode(st, NewNode("elem", "div", HtmlNs, "Render Error: boom", None))
      en == Newest(st1)
  IN  Res([st1 EXCEPT !.dom = DomAppend(SetAttr(st1.dom, en, "class", "olova-error"),
                                        Root, en)],
          "ok", VNode(en))

\* render from the options on: the root element is there (core.js:302-349)
Mount(st, c, options, d) ==
  LET st1 == BeforeRender(Cleared(st, options), options.beforeRender)
      r == Invoke("Component", <<Sees(st1, "component", c), c, None, d>>)
  IN  CASE Unwinds(r) -> r
        [] r.out = "throw" -> ErrorNode(r.st)
        [] Falsy(r.ret) -> Res(r.st, "ok", VNull)
        [] r.ret.k = "arr" ->
             LET st2 == CreateNode(r.st, NewNode("frag", "", "", "", None))
                 frag == Newest(st2)
                 st3 == FillTruthy(st2, frag, Flat(r.ret.items), 1)
             IN  Res([st3 EXCEPT !.dom = DomAppend(st3.dom, Root, frag)], "ok", VNode(frag))
        [] r.ret.k = "node" ->
             Res([r.st EXCEPT !.dom = DomAppend(r.st.dom, Root, r.ret.n)], "ok", r.ret)
        [] OTHER ->
             LET st2 == CreateNode(r.st, NewNode("text", "", "", StringOf(r.ret), None))
             IN  Res([st2 EXCEPT !.dom = DomAppend(st2.dom, Root, Newest(st2))], "ok", r.ret)

\* Render that mounts whether or not the selector matches
RenderAnyRoot(st, c, root, options, d) == Mount(st, c, options, d)

Render(st, c, root, options, d) ==
  IF root.k = "sel" /\ ~root.found
    THEN Res(st, "ok", VUndef)
    ELSE Mount(st, c, options, d)

----------------------------------------------------------------------------
----------------------------------------------------------------------------
(* The calls of the runtime's functions, one into another: the function    *)
(* named f is called with the arguments a.                                 *)
Invoke(f, a) ==
  CASE f = "RunEffect"      -> RunEffect(a[1], a[2], a[3], a[4])
    [] f = "EffectFunction" -> EffectFunction(a[1], a[2], a[3])
    [] f = "Exec"           -> Exec(a[1], a[2], a[3], a[4], a[5])
    [] f = "Setter"         -> Setter(a[1], a[2], a[3], a[4], a[5])
    [] f = "FanOut"         -> FanOut(a[1], a[2], a[3], a[4], a[5])
    [] f = "SetEffect"      -> SetEffect(a[1], a[2], a[3])
    [] f = "CallFn"         -> CallFn(a[1], a[2], a[3], a[4])
    [] f = "ChildEffect"    -> ChildEffect(a[1], a[2], a[3])
    [] f = "Build"          -> Build(a[1], a[2], a[3], a[4], a[5])
    [] f = "BuildKids"      -> BuildKids(a[1], a[2], a[3], a[4], a[5], a[6], a[7])
    [] f = "Component"      -> Component(a[1], a[2], a[3], a[4])
    [] f = "Html"           -> Html(a[1], a[2], a[3], a[4], a[5], a[6])
    [] f = "AppendChild"    -> AppendChild(a[1], a[2], a[3], a[4], a[5])
    [] f = "AppendAll"      -> AppendAll(a[1], a[2], a[3], a[4], a[5], a[6])
    [] f = "Render"         -> Render(a[1], a[2], a[3], a[4], a[5])

(* The calls a program makes from the top level (module code, an event     *)
(* handler): currentEffect is whatever the last call left.                 *)

Init ==
  /\ val = [s \in Sigs |-> IF s \in PlainSigs THEN 0 ELSE Undef]
  /\ subs = [s \in Sigs |-> <<>>]
  /\ cur = None
  /\ effs = <<>>
  /\ made = {}
  /\ dom = << NewNode("elem", "div", HtmlNs, "", None) >>
  /\ mounted = <<>>
  /\ queue = <<>>
  /\ counts = NoCounts
  /\ proms = [p \in Promises |-> Pending]
  /\ refs = [r \in Refs |-> VNull]
  /\ log = <<>>
  /\ last = [op |-> "init", s |-> "", arg |-> Lit(0), out |-> "ok", ret |-> Undef,
             snap |-> <<>>, readers |-> {}, pval |-> [s \in Sigs |-> Undef], pcur |-> None,
             runs |-> <<>>, pref |-> [r \in Refs |-> VNull],
             psubs |-> [s \in Sigs |-> <<>>]]
  /\ ops = 0
  /\ halted = FALSE

\* what is recorded of a call: the operation and its arguments, and, of the
\* state before it, the subscribers of the signal written (snap), the effects
\* whose latest run read it (readers), the values (pval) and the run counts
\* the outcome of a call is installed; a call that never returns halts the program
Finish(r, rec) ==
  /\ r.out # "ovf"
  /\ ~r.st.ovf
  /\ ops' = ops + 1
  /\ IF r.out = "div"
       THEN /\ halted' = TRUE
            /\ last' = [rec EXCEPT !.out = "div"]
            /\ UNCHANGED <<val, subs, cur, effs, dom, queue, counts, proms, refs, log>>
       ELSE /\ halted' = FALSE
            /\ val' = r.st.val
            /\ subs' = r.st.subs
            /\ cur' = r.st.cur
            /\ effs' = r.st.effs
            /\ dom' = r.st.dom
            /\ queue' = r.st.queue
            /\ counts' = r.st.counts
            /\ proms' = r.st.proms
            /\ refs' = r.st.refs
            /\ log' = r.st.log
            /\ last' = [rec EXCEPT !.out = r.out,
                                   !.ret = IF rec.op \in {"html", "render"} THEN Undef ELSE r.ret]

Call(op, s, arg) ==
  [op |-> op, s |-> s, arg |-> arg, out |-> "ok", ret |-> Undef,
   snap |-> IF s \in Sigs THEN subs[s] ELSE <<>>,
   readers |-> IF s \in Sigs
                 THEN {e \in 1 .. Len(effs) : s \in effs[e].reads}
                 ELSE {},
   pval |-> val,
   pcur |-> cur,
   runs |-> [e \in 1 .. Len(effs) |-> effs[e].runs],
   pref |-> refs,
   psubs |-> subs]

\* a task starts when the microtasks of the task before it have run
Ready == ~halted /\ ops < MaxOps /\ queue = <<>>

\* setEffect(b)
CreateEffect(b) ==
  /\ Ready
  /\ Needs(b) \subseteq made
  /\ Finish(Invoke("SetEffect", <<St, NewEffect("plain", b, NoNode, NoNode), MaxDepth>>),
            Call("effect", b, Lit(0)))
  /\ UNCHANGED <<made, mounted>>

\* setMemo(m)
CreateMemo(m) ==
  /\ Ready
  /\ m \notin made
  /\ Needs(m) \subseteq made
  /\ Finish(SetMemo(St, m, MaxDepth), Call("memo", m, Lit(0)))
  /\ made' = made \cup {m}
  /\ UNCHANGED mounted

\* write(arg) on a signal made by setSignal
Write(s, arg) ==
  /\ Ready
  /\ Finish(Invoke("Setter", <<St, s, arg, None, MaxDepth>>), Call("write", s, arg))
  /\ UNCHANGED <<made, mounted>>

Args == {Lit(v) : v \in Nums} \cup {Inc, Boom}

Next ==
  \/ \E b \in TopBodies : CreateEffect(b)
  \/ \E m \in MemoSigs : CreateMemo(m)
  \/ \E s \in PlainSigs, a \in Args : Write(s, a)

Spec == Init /\ [][Next]_vars

----------------------------------------------------------------------------
(* A program of derived values: effects that only read, memos, and writes. *)
(* One of the effects, () => { if (a()) m1() }, may be created before the  *)
(* memo it reads; the program never calls the memo before it has made it.  *)

DerivedBodies == {"cntA", "condAB", "cntM1", "cntM2", "lateM1"}

\* the effects of () => { if (a()) m1() }
LateReaders == {e \in 1 .. Len(effs) : effs[e].body = "lateM1"}

CreateDerived(b) ==
  /\ (b = "lateM1" /\ "M1" \notin made) => val["A"] = 0
  /\ CreateEffect(b)

WriteDerived(s, arg) ==
  /\ (s = "A" /\ "M1" \notin made /\ LateReaders # {}) => Apply(arg, val[s]).ret = 0
  /\ Write(s, arg)

DerivedArgs == {Lit(v) : v \in Nums} \cup {Inc}

NextDerived ==
  \/ \E b \in DerivedBodies : CreateDerived(b)
  \/ \E m \in MemoSigs : CreateMemo(m)
  \/ \E s \in PlainSigs, a \in DerivedArgs : WriteDerived(s, a)

SpecDerived == Init /\ [][NextDerived]_vars

----------------------------------------------------------------------------
(* A page: components are mounted with render, trees are built with html,  *)
(* and event handlers write the signals.                                   *)

\* what a call of render or html gave its caller
Outcome(op, c, r) == [op |-> op, c |-> c, out |-> r.out, ret |-> r.ret]

\* the outcome of a call of render or html is installed and kept
FinishBuilt(r, op, c) ==
  /\ Finish(r, Call(op, "", Lit(0)))
  /\ mounted' = IF r.out = "div" THEN mounted ELSE Append(mounted, Outcome(op, c, r))

\* the outcome of a call of render, with the root and the options it was given
FinishRender(r, c, root, options) ==
  /\ Finish(r, Call("render", c, [root |-> root, options |-> options]))
  /\ mounted' = IF r.out = "div" THEN mounted ELSE Append(mounted, Outcome("render", c, r))

\* render(c, root, options)
RenderApp(c, root, options) ==
  /\ Ready
  /\ FinishRender(Invoke("Render", <<St, c, root, options, MaxDepth>>), c, root, options)
  /\ UNCHANGED made

\* the expression t is evaluated at the top level
HtmlCall(t) ==
  /\ Ready
  /\ FinishBuilt(Invoke("Build", <<St, t, 0, None, MaxDepth>>), "html", t)
  /\ UNCHANGED made

\* the calls of render a page makes
Mounts ==
  {<<c, RootNode, DefaultOptions>> : c \in Apps}
    \cup {<<"Mixed", Selector(TRUE), Hooked(Options(FALSE, FALSE), "look")>>,
          <<"Mixed", Selector(FALSE), Hooked(DefaultOptions, "look")>>,
          <<"Fragile", RootNode, Hooked(Options(TRUE, TRUE), "fail")>>,
          <<"Fragile", Selector(TRUE), Hooked(DefaultOptions, "look")>>,
          <<"Bad", RootNode, Options(FALSE, TRUE)>>}

\* the values its event handlers write
PageArgs == {Lit(v) : v \in Nums}

PageReady == ops < MaxPageOps

NextDom ==
  \/ \E m \in Mounts : PageReady /\ RenderApp(m[1], m[2], m[3])
  \/ \E t \in TopTemplates : PageReady /\ HtmlCall(t)
  \/ \E s \in PlainSigs, a \in PageArgs : PageReady /\ Write(s, a)

SpecDom == Init /\ [][NextDom]_vars

----------------------------------------------------------------------------
(* A program that only builds: html with every tag name, with a fragment,  *)
(* with children that fail; render with every shape of result.            *)

\* the tag names html is given: the 23 of SVG_TAGS and names that are not
\* among them, some of them names of SVG elements too
TagNames == SVG_TAGS \cup {"div", "input", "a", "title", "image", "SVG", "lineargradient"}

\* the properties html is given with them
Radius == << Prop("r", VNum(1)), Prop("focusable", VBool(FALSE)) >>
Xmlns == << Prop("xmlns", VStr(SvgNs)) >>

\* <>{() => a()}x</>
FragmentOfFn == TFrag(<< TFn("txtA"), TStr("x") >>)

\* <div>{object}{() => b() throws}after{() => b()}</div>
Guarded ==
  TEl("div", <<>>, << TLit(VBad), TFn("boomB"), TStr("after"), TFn("txtB") >>)

BuildTemplates ==
  {TEl(t, <<>>, <<>>) : t \in TagNames}
    \cup {TEl(t, ps, <<>>) : t \in {"circle", "div"}, ps \in {Radius, Xmlns}}
    \cup {FragmentOfFn, Guarded}

\* the components it mounts: one for each shape of result
Shapes == {"Zero", "One", "Blank", "Word", "No", "Yes", "Para", "Many"}

\* what its event handlers write: c => c + 1, and 0
TaskArgs == {Inc, Lit(0)}

BuildReady == ops < MaxBuilds

NextBuild ==
  \/ \E t \in BuildTemplates : BuildReady /\ HtmlCall(t)
  \/ \E c \in Shapes : BuildReady /\ RenderApp(c, RootNode, DefaultOptions)
  \/ \E s \in PlainSigs, a \in TaskArgs : BuildReady /\ Write(s, a)

SpecBuild == Init /\ [][NextBuild]_vars

----------------------------------------------------------------------------
(* The event loop: a task (a render, an event handler that writes a        *)
(* signal) runs to completion, then the microtasks run, oldest first, and   *)
(* only then the next task.                                                 *)

\* a microtask is run
RunJob(st, job, d) ==
  CASE job.t = "mount" -> MountCallback(st, job.f, None, d)
    [] job.t = "then"  -> ThenCallback(st, job)
    [] job.t = "pass"  -> Res([st EXCEPT !.queue = Append(@, CatchJob(job))], "ok", Undef)
    [] job.t = "catch" -> CatchCallback(st, job)

\* the host settles the promise p: its reactions are queued
Settled(st, p, state, x) ==
  [st EXCEPT !.proms[p] = [state |-> state, x |-> x, waits |-> <<>>],
             !.queue = @ \o Reactions(st.proms[p].waits, state, x)]

\* how a promise ends: fulfilled with a node it made, with a number, rejected
Settle(p, how) ==
  /\ Ready
  /\ proms[p].state = "pending"
  /\ LET st1 == CreateNode(St, NewNode("elem", "p", HtmlNs, "", None))
         st2 == CASE how = "node"   -> Settled(st1, p, "fulfilled", VNode(Newest(st1)))
                  [] how = "value"  -> Settled(St, p, "fulfilled", VNum(1))
                  [] how = "reject" -> Settled(St, p, "rejected", VNull)
     IN  Finish(Res(st2, "ok", Undef), Call("settle", p, Lit(0)))
  /\ UNCHANGED <<made, mounted>>

Microtask ==
  /\ ~halted
  /\ queue # <<>>
  /\ Finish(RunJob([St EXCEPT !.queue = Tail(queue)], Head(queue), MaxDepth),
            Call("microtask", Head(queue).f, Lit(0)))
  /\ UNCHANGED <<made, mounted>>

\* the page calls an accessor made by setRef
CallRef(r, args) ==
  /\ Ready
  /\ Finish(Accessor(St, r, args), Call("ref", r, args))
  /\ UNCHANGED <<made, mounted>>

\* the arguments it calls one with: none, undefined, null, an element
RefArgs == {<<>>, << VUndef >>, << VNull >>, << VNode(Root) >>}

\* the components the page mounts
TaskApps == {"Counter", "LifecycleExample", "Awaited", "RefsExample", "Watcher"}

NextTasks ==
  \/ \E c \in TaskApps : RenderApp(c, RootNode, DefaultOptions)
  \/ \E a \in TaskArgs : Write("A", a)
  \/ \E p \in Promises, how \in {"node", "value", "reject"} : Settle(p, how)
  \/ \E r \in Refs, args \in RefArgs : CallRef(r, args)
  \/ Microtask

SpecTasks == Init /\ [][NextTasks]_vars

----------------------------------------------------------------------------
(* A page with several reactive children in one element, and event        *)
(* handlers that write the signals they read, one task after another.     *)

\* the components the page mounts
SiblingApps == {"Conditional", "Mixed"}

NextSiblings ==
  \/ \E c \in SiblingApps : RenderApp(c, RootNode, DefaultOptions)
  \/ \E s \in PlainSigs, a \in TaskArgs : Write(s, a)

SpecSiblings == Init /\ [][NextSiblings]_vars

----------------------------------------------------------------------------
(* A program whose effects subscribe while a write is notifying: an effect *)
(* that creates an effect, one that writes the signal it reads, one that   *)
(* writes another signal, whose subscriber then reads the first.           *)

FanOutBodies == {"cntA", "nestAB", "clampA", "pushB", "condBA"}

NextFanOut ==
  \/ \E b \in FanOutBodies : CreateEffect(b)
  \/ \E s \in PlainSigs, a \in TaskArgs : Write(s, a)

SpecFanOut == Init /\ [][NextFanOut]_vars

----------------------------------------------------------------------------
(* Reading the log of the last call *)

LogIdx == 1 .. Len(log)

\* the call returned or threw: it did not run off the stack
Returned == last.op # "init" /\ last.out # "div"

\* the runs of effect e that caller c started
RunsBy(e, c) == {i \in LogIdx : log[i].t = "run" /\ log[i].e = e /\ log[i].c = c}

\* the runs of e in the call, whoever started them, and those that threw
RunsOf(e) == {i \in LogIdx : log[i].t = "run" /\ log[i].e = e}
ThrowsOf(e) == {i \in LogIdx : log[i].t = "exit" /\ log[i].e = e /\ log[i].v = 1}
ExitsOf(e) == {i \in LogIdx : log[i].t = "exit" /\ log[i].e = e}

\* the assignments to signal s in the call
AssignsTo(s) == {i \in LogIdx : log[i].t = "assign" /\ log[i].s = s}

\* the id of the top-level write call
TopCall == 1

\* the effect that owns memo m, if it was made
MemoEffs(m) == {e \in 1 .. Len(effs) : effs[e].kind = "memo" /\ effs[e].body = m}

\* a callback that only reads: it calls no write accessor and creates no effect
ReadOnly(b) == \A i \in 1 .. Len(Body(b)) : Body(b)[i].op \notin {"write", "effect"}

\* a memo function evaluated on given signal values, outside any effect
RECURSIVE Compute(_, _, _)
Compute(ins, acc, v) ==
  IF ins = <<>>
    THEN [out |-> "ok", ret |-> acc]
    ELSE LET i == Head(ins)
         IN  CASE i.op = "read" -> Compute(Tail(ins), Add(acc, v[i.s]), v)
               [] i.op = "stopIf" ->
                    IF acc = i.v THEN [out |-> "ok", ret |-> acc]
                                 ELSE Compute(Tail(ins), acc, v)
               [] i.op = "throwIf" ->
                    IF acc = i.v THEN [out |-> "throw", ret |-> Undef]
                                 ELSE Compute(Tail(ins), acc, v)

----------------------------------------------------------------------------
(* C1 *)

\* C1 (as claimed): a write that returns has invoked, exactly once, every
\* effect whose most recent run read the signal written.
C1_ReadersInvokedOnce ==
  (Returned /\ last.op = "write" /\ last.out = "ok")
    => \A e \in last.readers : Cardinality(RunsBy(e, TopCall)) = 1

----------------------------------------------------------------------------
(* C2 *)

\* C2: in every state between calls, each memo that exists holds its function
\* applied to the current values of the signals and memos the function reads
\* (where the function has a value there), also right after setMemo.
C2_MemoIsFunctionOfCurrent ==
  \A m \in made :
    LET c == Compute(Body(m), 0, val)
    IN  c.out = "ok" => val[m] = c.ret

\* C2 witness: after a write to A, the memo M2, which reads A only when B is
\* not 0, holds a value that depends on A, B and M1
C2_Witness ==
  /\ "M2" \in made
  /\ last.op = "write" /\ last.s = "A" /\ last.out = "ok"
  /\ val["B"] = 1 /\ val["A"] = 1 /\ val["M1"] = 1
  /\ val["M2"] = Add(Add(val["B"], val["A"]), val["M1"])
  /\ last.pval["M2"] = 1

----------------------------------------------------------------------------
(* C4 *)

\* C4: a write to a signal whose only subscriber is an effect that only reads
\* runs that effect exactly once more, whether or not the value changes.
C4_NoEqualityShortCircuit ==
  (Returned /\ last.op = "write" /\ last.out = "ok" /\ Len(last.snap) = 1)
    => LET e == last.snap[1]
       IN  (effs[e].kind = "plain" /\ ReadOnly(effs[e].body))
             => /\ effs[e].runs = last.runs[e] + 1
                /\ Cardinality(RunsOf(e)) = 1

\* C4 witness: one creation and one write of the value the signal already
\* holds: the run count is 2
C4_Witness ==
  /\ last.op = "write" /\ last.s = "A" /\ last.out = "ok"
  /\ last.arg = Lit(last.pval["A"])
  /\ last.snap = <<1>>
  /\ effs[1].body = "cntA"
  /\ effs[1].runs = 2
  /\ ops = 2

----------------------------------------------------------------------------
(* C5 *)

\* next, or next(previous value), for the last write
Assigned ==
  IF last.arg.f = "lit"
    THEN last.arg.v
    ELSE Updater(last.arg.f, last.pval[last.s]).ret

\* C5 (as claimed): after write(next) the signal holds next, or next(previous),
\* and the call returned it.
C5_WriteSetsAndReturnsNext ==
  (Returned /\ last.op = "write" /\ last.out = "ok")
    => /\ val[last.s] = Assigned
       /\ last.ret = Assigned

\* the reads of s in the log return the value of the latest assignment to s
\* before them (the value before the call if there is none)
ReadsSeeLatest(s) ==
  \A i \in LogIdx :
    (log[i].t = "read" /\ log[i].s = s)
      => LET before == {j \in AssignsTo(s) : j < i}
         IN  IF before = {}
               THEN log[i].v = last.pval[s]
               ELSE \E j \in before :
                      /\ \A k \in before : k <= j
                      /\ log[i].v = log[j].v

\* C5 (amended): write(next) assigns next, or next(previous), before it invokes
\* any subscriber; it returns the value the signal holds when the fan-out has
\* ended, which is the assigned value unless a subscriber wrote the signal
\* again; reads return the latest value assigned.
C5_WriteAssignsThenReturnsCurrent ==
  (Returned /\ last.op = "write" /\ last.out = "ok")
    => /\ log[1] = EvAssign(last.s, Assigned, TopCall, last.pcur)
       /\ last.ret = val[last.s]
       /\ \E j \in AssignsTo(last.s) :
            /\ \A k \in AssignsTo(last.s) : k <= j
            /\ val[last.s] = log[j].v
       /\ (AssignsTo(last.s) = {1} => last.ret = Assigned)
       /\ ReadsSeeLatest(last.s)

\* C5 witness: an updater function was applied to the previous value, the
\* subscribers ran, and the call returned the new value
C5_Witness ==
  /\ last.op = "write" /\ last.s = "A" /\ last.out = "ok"
  /\ last.arg = Inc
  /\ last.pval["A"] = 1
  /\ last.ret = 2 /\ val["A"] = 2
  /\ Len(last.snap) >= 1
  /\ AssignsTo("A") = {1}

----------------------------------------------------------------------------
(* C6 *)

\* the subscribers the top-level write invoked that threw
FailedSubscribers ==
  {e \in 1 .. Len(effs) :
     \E i \in ThrowsOf(e) : log[i].c = TopCall}

----------------------------------------------------------------------------
(* C7 *)

\* the effect a top-level setEffect or setMemo call creates
Created == Len(last.runs) + 1

\* C7: setEffect(fn) runs fn once itself, first and before it returns, and
\* returns normally also when that run throws.
C7_FirstRunSwallowed ==
  (Returned /\ last.op \in {"effect", "memo"})
    => /\ last.out = "ok"
       /\ Len(effs) >= Created
       /\ log[1] = EvRun(Created, 0)
       /\ RunsBy(Created, 0) = {1}
       /\ ExitsOf(Created) # {}
       /\ cur = None

\* C7 witness: the first run of the new effect threw and setEffect returned
C7_Witness ==
  /\ last.op = "effect" /\ last.s = "boomA" /\ last.out = "ok"
  /\ ThrowsOf(Created) # {}
  /\ effs[Created].runs = 1

----------------------------------------------------------------------------
(* C8 *)

\* the memos whose function ran in the last call and threw every time
FailedMemos ==
  {m \in made : \E e \in MemoEffs(m) : RunsOf(e) # {} /\ Cardinality(ThrowsOf(e)) = Cardinality(RunsOf(e))}

\* a failed run of effect e does nothing but read: between its start and its
\* end no signal is assigned and no effect is run
FailedRunsOnlyRead(e) ==
  \A k \in ThrowsOf(e) :
    \E j \in RunsOf(e) :
      /\ j < k
      /\ \A i \in (j + 1) .. (k - 1) : log[i].t = "read"

\* C8: when a memo's function throws, the memo keeps the value it had (undefined
\* if it never had one): the failed run assigns nothing and runs no effect, so
\* the memo's subscribers are not invoked by it, and the call that triggered the
\* run does not throw.
C8_FailedMemoKeepsValue ==
  Returned =>
    /\ \A m \in made : \A e \in MemoEffs(m) : FailedRunsOnlyRead(e)
    /\ \A m \in FailedMemos :
         /\ val[m] = last.pval[m]
         /\ AssignsTo(m) = {}
         /\ last.out = "ok"

\* C8 witness: M1 had the value 1, a write made its function throw, and a
\* subscriber of M1 exists that the write did not run
C8_Witness ==
  /\ last.op = "write" /\ last.s = "A" /\ last.out = "ok"
  /\ "M1" \in FailedMemos
  /\ val["A"] = 2
  /\ val["M1"] = 1
  /\ \E e \in 1 .. Len(effs) :
       /\ Member(e, subs["M1"])
       /\ RunsOf(e) = {}

\* C8 witness (second case): the memo never had a value
C8_NeverSucceeded ==
  /\ last.op = "memo" /\ last.s = "M1" /\ last.out = "ok"
  /\ "M1" \in FailedMemos
  /\ val["M1"] = Undef

----------------------------------------------------------------------------
(* C3 *)

ChildEffs == {e \in 1 .. Len(effs) : effs[e].kind = "child"}

\* the entries of seq that are entries of keep, in the order of seq
KeepOnly(seq, keep) == SelectSeq(seq, LAMBDA y : Member(y, keep))

\* the children of p after its child n and before the next child html gave p
Region(p, n) ==
  LET ks == dom[p].kids
      after == SubSeq(ks, IndexOf(ks, n) + 1, Len(ks))
      stops == {j \in 1 .. Len(after) : Member(after[j], dom[p].built)}
      stop == IF stops = {} THEN Len(after) + 1
                            ELSE CHOOSE j \in stops : \A k \in stops : j <= k
  IN  SubSeq(after, 1, stop - 1)

\* C3 (as claimed): whatever the number of reruns of a reactive child's effect,
\* every child html gave the parent element (static nodes, the placeholders of
\* reactive children) is still a child of it, once and in the original order,
\* and between the placeholder and the next such child sit exactly the nodes of
\* the latest result of the callable.
C3_RegionRebuildKeepsSiblings ==
  \A e \in ChildEffs :
    LET p == effs[e].par
    IN  /\ KeepOnly(dom[p].kids, dom[p].built) = dom[p].built
        /\ Region(p, effs[e].ph) = effs[e].shown

----------------------------------------------------------------------------
(* C9 *)

\* the signals the callable f reads
Sources(f) ==
  {Callable(f).body[j].s : j \in {k \in 1 .. Len(Callable(f).body) :
                                    Callable(f).body[k].op = "read"}}

\* the functions the call passed to html, as a prop that is not an event
\* listener or as a child
FunctionsPassed == {i \in LogIdx : log[i].t \in {"fnprop", "fnchild"}}

\* C9 (as claimed): after a build, every function that was passed to html as a
\* prop or as a child has an effect of its own on the element it was passed
\* for, and that effect is a subscriber of every signal the function reads.
C9_FunctionsAreEffects ==
  (last.op \in {"html", "render"} /\ last.out = "ok") =>
    \A i \in FunctionsPassed :
      \E e \in ChildEffs :
        /\ effs[e].body = log[i].s
        /\ effs[e].par = log[i].v
        /\ \A s \in Sources(log[i].s) : Member(e, subs[s])

----------------------------------------------------------------------------
(* C10 *)

\* of each node of ns, what it is: the tag of an element, else the node type
Kinds(ns) ==
  [i \in 1 .. Len(ns) |-> IF dom[ns[i]].type = "elem" THEN dom[ns[i]].tag
                                                       ELSE dom[ns[i]].type]

\* the latest call of html or render, when no call followed it
Built == Len(mounted) > 0 /\ last.op \in {"html", "render"}

Latest == mounted[Len(mounted)]

\* C10: html never throws to its caller and returns a node.  A component that
\* throws gives one comment node with the message; the fragment of a div, that
\* component and a div holds the div, one comment and the div; and render
\* mounts these three nodes and returns.
C10_BuilderNeverThrows ==
  Built =>
    /\ Latest.out = "ok"
    /\ Latest.op = "html" => Latest.ret.k = "node"
    /\ (Latest.op = "html" /\ Latest.c = TComp("Bad")) =>
         /\ dom[Latest.ret.n].type = "comment"
         /\ dom[Latest.ret.n].text = "Error in component: boom"
    /\ (Latest.op = "html" /\ Latest.c = Comp("Isolation").tpl) =>
         /\ dom[Latest.ret.n].type = "frag"
         /\ Kinds(dom[Latest.ret.n].kids) = <<"div", "comment", "div">>
    /\ (Latest.op = "render" /\ Latest.c = "Isolation") =>
         /\ Kinds(dom[Root].kids) = <<"div", "comment", "div">>
         /\ dom[dom[Root].kids[2]].text = "Error in component: boom"
         /\ Latest.ret.k = "node"

\* C10 witness: render mounted the fragment with the failing component
C10_Witness ==
  /\ Built
  /\ Latest.op = "render" /\ Latest.c = "Isolation" /\ Latest.out = "ok"
  /\ \E i \in 1 .. Len(dom[Root].kids) : dom[dom[Root].kids[i]].type = "comment"

\* C10 witness (second case): html was given a name that is no element name
C10_InvalidName ==
  /\ Built
  /\ Latest.op = "html" /\ Latest.c = TEl("<", <<>>, <<>>) /\ Latest.out = "ok"
  /\ dom[Latest.ret.n].type = "comment"

----------------------------------------------------------------------------
(* C11 *)

\* node.textContent: the text of the node's text descendants, in order
RECURSIVE TextOfAll(_, _)
TextContent(n) ==
  IF dom[n].type \in {"text", "comment"} THEN dom[n].text ELSE TextOfAll(dom[n].kids, 1)

TextOfAll(ns, i) ==
  IF i > Len(ns)
    THEN ""
    ELSE (IF dom[ns[i]].type = "comment" THEN "" ELSE TextContent(ns[i])) \o TextOfAll(ns, i + 1)

\* the component the root shows: the one render was given last
Shown(c) == Len(mounted) > 0 /\ Latest.op = "render" /\ Latest.c = c

\* the reactive children html bound on the element p
ChildEffsOf(p) == {e \in ChildEffs : effs[e].par = p}

\* C11: while the counter is mounted, its button has exactly one child node,
\* the placeholder of () => count(), and its text content is the string of
\* count's value; a write of c => c + 1 on the value k - 1 leaves the text k.
C11_CounterShowsCount ==
  Shown("Counter") =>
    LET button == Latest.ret.n
    IN  /\ dom[Root].kids = <<button>>
        /\ dom[button].tag = "button"
        /\ Len(dom[button].kids) = 1
        /\ \E e \in ChildEffsOf(button) : dom[button].kids = <<effs[e].ph>>
        /\ TextContent(button) = Str(val["A"])
        /\ (last.op = "write" /\ last.arg = Inc /\ last.out = "ok"
              /\ last.pval["A"] + 1 < VMod)
             => TextContent(button) = Str(last.pval["A"] + 1)

\* C11 witness: the counter was mounted with count 0, then c => c + 1 was
\* written three times: the child's effect ran four times and the text is 3
C11_Witness ==
  /\ Shown("Counter")
  /\ Len(mounted) = 1
  /\ ops = 4
  /\ last.op = "write" /\ last.arg = Inc /\ last.pval["A"] = 2
  /\ \E e \in ChildEffsOf(Latest.ret.n) : effs[e].runs = 4
  /\ TextContent(Latest.ret.n) = "3"
  /\ Len(dom[Latest.ret.n].kids) = 1

----------------------------------------------------------------------------
(* C12 *)

\* the DOM writes of promise reactions in the last call
Settlements == {i \in LogIdx : log[i].t \in {"then", "catch"}}

\* C12 (as claimed): a promise child's reaction writes the DOM only in a
\* microtask, after the call that bound the child has returned; whatever
\* signal writes came before it, fulfilment with a node leaves that node in the
\* parent element in place of the placeholder, fulfilment with another value
\* leaves the placeholder's text that value's string, and rejection leaves the
\* placeholder's text an error message.
C12_SettlementReachesPlaceholder ==
  /\ last.op # "microtask" => Settlements = {}
  /\ \A i \in Settlements :
       LET ph == log[i].e
           par == log[i].c
       IN  CASE log[i].t = "catch" -> dom[ph].text = ErrorText
             [] log[i].s = "node" ->
                  /\ Member(log[i].x, dom[par].kids)
                  /\ ~Member(ph, dom[par].kids)
             [] OTHER -> dom[ph].text = Str(log[i].v)

----------------------------------------------------------------------------
(* C13 *)

\* the microtasks of onMount in a queue
MountJobs(q) == SelectSeq(q, LAMBDA j : j.t = "mount")

\* the step runs the oldest microtask
RunsOldest == queue # <<>> /\ last'.op = "microtask"

\* the microtasks a step leaves of those that waited
Waiting == IF RunsOldest THEN Tail(queue) ELSE queue

\* the microtasks a step queued: they are behind those that waited
Queued == SubSeq(queue', Len(Waiting) + 1, Len(queue'))

\* C13: a function given to onMount runs only as the oldest microtask, one
\* run for one microtask, and so after the task that called onMount and after
\* the microtasks queued before; every call of onMount queues exactly one
\* such microtask, behind those that wait; the function has run once for
\* every call of onMount whose microtask is not waiting, whatever was written
\* since; and the microtask returns normally also when the function throws.
C13_MountRunsOnceInMicrotask ==
  [][ /\ counts'.mounted # counts.mounted
           => /\ RunsOldest
              /\ Head(queue).t = "mount"
              /\ counts'.mounted = counts.mounted + 1
      /\ (RunsOldest /\ Head(queue).t = "mount")
           => counts'.mounted = counts.mounted + 1 /\ last'.out = "ok"
      /\ SubSeq(queue', 1, Len(Waiting)) = Waiting
      /\ Len(MountJobs(Queued)) = counts'.onMount - counts.onMount
      /\ counts'.onMount = counts'.mounted + Len(MountJobs(queue'))
    ]_vars

\* C13 witness: onMount was called once, its function ran in a microtask,
\* and a write that came later did not run it again
C13_Witness ==
  /\ counts.onMount = 1
  /\ counts.mounted = 1
  /\ last.op = "write" /\ last.s = "A" /\ last.out = "ok"
  /\ \E e \in 1 .. Len(effs) : effs[e].kind = "mount" /\ effs[e].runs = 1
  /\ queue = <<>>

\* C13 witness (second case): the function threw in its microtask
C13_Reported ==
  /\ last.op = "microtask" /\ last.out = "ok"
  /\ counts.mounted = 1
  /\ \E i \in LogIdx : log[i] = EvReport("mountFunction")

----------------------------------------------------------------------------
(* C14 *)

\* the effects onUnmount created
UnmountEffs == {e \in 1 .. Len(effs) : effs[e].kind = "unmount"}

----------------------------------------------------------------------------
(* C15 *)

\* the element the latest build made for <input ref={inputRef} .../>
RefTargets ==
  {n \in 1 .. Len(dom) :
     /\ dom[n].tag = "input"
     /\ \E i \in LogIdx : log[i] = EvFn("fnprop", "inputRef", n)}

\* after a build of the component that passes the accessor as ref prop, the
\* slot holds the element built for it
RefPropStored ==
  (last.op = "render" /\ Latest.c = "RefsExample" /\ last.out = "ok")
    => /\ Cardinality(RefTargets) = 1
       /\ \A n \in RefTargets : refs["inputRef"] = VNode(n)

\* C15 (as claimed): the slot is null at first; a call of the accessor with
\* an argument stores the argument and returns it; a call with no argument
\* returns the value stored last and stores nothing; the accessor passed as
\* ref prop is called with the element during the build.
C15_RefStoresAnyArgument ==
  /\ ops = 0 => \A r \in Refs : refs[r] = VNull
  /\ last.op = "ref" =>
       IF last.arg # <<>>
         THEN refs[last.s] = last.arg[1] /\ last.ret = last.arg[1]
         ELSE refs[last.s] = last.pref[last.s] /\ last.ret = last.pref[last.s]
  /\ RefPropStored

\* C15 (amended): as claimed, but a call with the argument undefined is a
\* call with no argument: it stores nothing and returns the value stored last.
C15_RefStoresDefinedArgument ==
  /\ ops = 0 => \A r \in Refs : refs[r] = VNull
  /\ last.op = "ref" =>
       IF last.arg # <<>> /\ last.arg # << VUndef >>
         THEN refs[last.s] = last.arg[1] /\ last.ret = last.arg[1]
         ELSE refs[last.s] = last.pref[last.s] /\ last.ret = last.pref[last.s]
  /\ RefPropStored

\* C15 witness: the component was mounted and a call of the accessor with no
\* argument returned the input element
C15_Witness ==
  /\ last.op = "ref" /\ last.arg = <<>>
  /\ Shown("RefsExample")
  /\ last.ret.k = "node"
  /\ dom[last.ret.n].tag = "input"
  /\ Member(last.ret.n, dom[Latest.ret.n].kids)

----------------------------------------------------------------------------
(* C16 *)

\* the last call was render with a selector that matches no element
MissingRoot == last.op = "render" /\ last.arg.root = Selector(FALSE)

\* C16: a call of render with a selector that matches no element returns
\* undefined and leaves everything as it was: no signal value, subscriber set,
\* effect or DOM node changes, no microtask is queued, and neither the
\* component nor the beforeRender hook is called (the call's log is empty).
C16_MissingRootMountsNothing ==
  [][ MissingRoot'
        => /\ last'.out = "ok"
           /\ mounted'[Len(mounted')].ret = VUndef
           /\ log' = <<>>
           /\ UNCHANGED <<val, subs, cur, effs, dom, queue, counts, proms, refs>>
    ]_vars

\* C16 witness: a page was mounted, then render was called with a selector
\* that matches nothing and with a beforeRender hook
C16_Witness ==
  /\ MissingRoot
  /\ last.arg.options.beforeRender = "look"
  /\ last.out = "ok"
  /\ dom[Root].kids # <<>>
  /\ Len(effs) > 0
  /\ Latest.ret = VUndef

----------------------------------------------------------------------------
(* C17 *)

\* the last call was render with a root element that exists
Rendered == last.op = "render" /\ last.arg.root # Selector(FALSE)

\* the component function the last render was given threw: its statements throw
\* on the signal values of then
ComponentThrew ==
  /\ Rendered
  /\ last.s \in {"Bad", "Fragile"}
  /\ Compute(Comp(last.s).pre, 0, last.pval).out = "throw"

\* C17: when the component function throws, render returns normally; what it
\* returns is a new div of class olova-error with the message as text, and
\* that div is the last child of the root.
C17_ComponentFailureShown ==
  ComponentThrew =>
    /\ last.out = "ok"
    /\ Latest.ret.k = "node"
    /\ LET en == Latest.ret.n
       IN  /\ dom[en].tag = "div"
           /\ <<"class", "olova-error">> \in dom[en].attrs
           /\ dom[en].text = "Render Error: boom"
           /\ dom[Root].kids # <<>>
           /\ dom[Root].kids[Len(dom[Root].kids)] = en

\* C17 witness: the component threw on the value 1 of the signal it reads;
\* the root kept what it had and got the error element
C17_Witness ==
  /\ ComponentThrew
  /\ last.s = "Fragile" /\ last.pval["A"] = 1
  /\ last.arg.options.hydrate
  /\ Len(dom[Root].kids) >= 2
  /\ dom[Latest.ret.n].text = "Render Error: boom"

----------------------------------------------------------------------------
(* C18 *)

\* where in a log the root was cleared, and where the hook and the component
\* function were called
ClearsIn(l) == {i \in 1 .. Len(l) : l[i].t = "clear"}
CallsIn(l) == {i \in 1 .. Len(l) : l[i].t \in {"hook", "component"}}

\* C18: a render that finds its root removes the root's children exactly
\* when clear is not false and hydrate is not true, and it does so before it
\* calls the beforeRender hook and the component function, which both find
\* the root empty; otherwise the children the root had are all kept, in
\* order, the hook and the component function find them there, and the new
\* content comes after them.
C18_ClearUnlessHydrate ==
  [][ (Rendered' /\ last'.out = "ok")
        => LET o == last'.arg.options
               old == dom[Root].kids
               new == dom'[Root].kids
           IN  /\ CallsIn(log') # {}
               /\ IF o.clear /\ ~o.hydrate
                    THEN /\ \A i \in 1 .. Len(old) : ~Member(old[i], new)
                         /\ ClearsIn(log') = {1}
                         /\ \A j \in CallsIn(log') : log'[j].v = 0
                    ELSE /\ Len(new) >= Len(old)
                         /\ SubSeq(new, 1, Len(old)) = old
                         /\ ClearsIn(log') = {}
                         /\ \A j \in CallsIn(log') : log'[j].v = Len(old)
    ]_vars

\* C18 witness: with hydrate set the root kept its two children and got the
\* new content as its third
C18_Witness ==
  /\ Rendered /\ last.out = "ok"
  /\ last.arg.options.hydrate /\ last.arg.options.clear
  /\ Len(mounted) = 3
  /\ Len(dom[Root].kids) = 3
  /\ \E j \in CallsIn(log) : log[j].t = "hook" /\ log[j].v = 2

\* C18 witness (second case): by default the root lost the children it had
C18_Cleared ==
  /\ Rendered /\ last.out = "ok"
  /\ last.arg.options = DefaultOptions
  /\ Len(mounted) = 2 /\ mounted[1].op = "render" /\ mounted[1].ret.k = "node"
  /\ ~Member(mounted[1].ret.n, dom[Root].kids)
  /\ ClearsIn(log) = {1}

----------------------------------------------------------------------------
(* C19 *)

\* the body b reaches statement i on every run: no statement before it can
\* return or throw
Unconditional(b, i) ==
  \A j \in 1 .. (i - 1) : Body(b)[j].op \in {"read", "write", "effect"}

\* the body b writes the signal s on every run
AlwaysWrites(b, s) ==
  \E i \in 1 .. Len(Body(b)) :
    /\ Body(b)[i].op = "write" /\ Body(b)[i].s = s
    /\ Unconditional(b, i)

\* the body b, run as the current effect, reads s and then writes s, on every run
ReadsThenWrites(b, s) ==
  \E i \in 1 .. Len(Body(b)) :
    /\ Body(b)[i].op = "write" /\ Body(b)[i].s = s
    /\ Unconditional(b, i)
    /\ \E j \in 1 .. (i - 1) :
         /\ Body(b)[j].op = "read" /\ Body(b)[j].s = s
         /\ \A k \in 1 .. (j - 1) : Body(b)[k].op = "read"

\* how many runs are open after log entry k
Nesting(k) ==
  Cardinality({j \in 1 .. k : log[j].t = "run"}) - Cardinality({j \in 1 .. k : log[j].t = "exit"})

\* the effect whose body makes log entry i (None: the top-level caller)
WriterOf(i) ==
  LET opens == {j \in 1 .. (i - 1) : log[j].t = "run" /\ Nesting(j) = Nesting(i)}
  IN  IF Nesting(i) = 0 \/ opens = {}
        THEN None
        ELSE log[CHOOSE j \in opens : \A k \in opens : k <= j].e

\* effect e is a subscriber of s when log entry i is made
SubscribedAt(e, s, i) ==
  \/ Member(e, last.psubs[s])
  \/ \E j \in 1 .. (i - 1) : log[j].t = "read" /\ log[j].s = s /\ log[j].x = e

C19_WriteDiverges ==
  /\ last.op = "write" /\ last.s = "A"
  /\ last.out = "div"
  /\ \E e \in 1 .. Len(effs) : effs[e].body = "syncAB" /\ Member(e, subs["A"]) /\ Member(e, subs["B"])

\* C19 witness (third case): a call returned in which an effect wrote a
\* signal it reads but was no subscriber of
C19_Unsubscribed ==
  /\ Returned /\ last.op = "write"
  /\ \E i \in LogIdx :
       /\ log[i].t = "assign"
       /\ WriterOf(i) # None
       /\ effs[WriterOf(i)].body = "syncAB"

----------------------------------------------------------------------------
(* C20 *)

\* the latest call built a non-SVG element from an expression with props
BuiltElement ==
  /\ Built
  /\ Latest.op = "html" /\ Latest.out = "ok"
  /\ Latest.c.k = "el"
  /\ ValidTag(Latest.c.tag) /\ Latest.c.tag \notin SVG_TAGS

\* the values of the element's attribute of a name
AttrValues(n, name) == {a[2] : a \in {b \in dom[n].attrs : b[1] = name}}

\* a boolean prop shows as an attribute: true as the empty string, false not
\* at all
Toggled(n, prop) ==
  IF prop.val.v = 1
    THEN AttrValues(n, prop.name) = {""}
    ELSE AttrValues(n, prop.name) = {}

\* the names html does not treat as plain attributes (core.js:135-157)
Special(name) == name \in {"value", "className", "class", "ref"} \/ StartsWithOn(name)

\* C20 (as claimed): every boolean prop of a non-SVG element gives an
\* attribute of its name with the empty string as value when it is true, and
\* no attribute of its name when it is false.
C20_BooleanPropsToggle ==
  BuiltElement =>
    \A i \in 1 .. Len(Latest.c.props) :
      Latest.c.props[i].val.k = "bool" => Toggled(Latest.ret.n, Latest.c.props[i])

\* C20 (amended): the same for every boolean prop whose name is not value,
\* className, class or ref and does not start with "on".
C20_PlainBooleanPropsToggle ==
  BuiltElement =>
    \A i \in 1 .. Len(Latest.c.props) :
      (Latest.c.props[i].val.k = "bool" /\ ~Special(Latest.c.props[i].name))
        => Toggled(Latest.ret.n, Latest.c.props[i])

\* C20 witness: <input disabled={true} hidden={false} .../> was built: it
\* has the attribute disabled with the empty string and no attribute hidden
C20_Witness ==
  /\ BuiltElement
  /\ Latest.c.tag = "input"
  /\ <<"disabled", "">> \in dom[Latest.ret.n].attrs
  /\ AttrValues(Latest.ret.n, "hidden") = {}
  /\ dom[Latest.ret.n].type = "elem"

----------------------------------------------------------------------------
(* C21 *)

\* the elements that exist
Elements == {n \in 1 .. Len(dom) : dom[n].type = "elem"}

\* the calls of html so far that were given the tag name t, with their results
BuiltWith(t) ==
  {i \in 1 .. Len(mounted) :
     mounted[i].op = "html" /\ mounted[i].c.k = "el" /\ mounted[i].c.tag = t}

\* C21: an element is in the SVG namespace exactly when its tag name is one of
\* the 23 names of SVG_TAGS, and in the HTML namespace otherwise, whatever the
\* props: circle is an SVG element, div with the same props an HTML element.
C21_NamespaceByTagName ==
  /\ Cardinality(SVG_TAGS) = 23
  /\ \A n \in Elements :
       /\ dom[n].ns = SvgNs <=> dom[n].tag \in SVG_TAGS
       /\ dom[n].ns = HtmlNs <=> dom[n].tag \notin SVG_TAGS
  /\ \A t \in TagNames : \A i \in BuiltWith(t) :
       /\ mounted[i].out = "ok" /\ mounted[i].ret.k = "node"
       /\ mounted[i].ret.n \in Elements
       /\ dom[mounted[i].ret.n].tag = t
       /\ t = "circle" => dom[mounted[i].ret.n].ns = SvgNs
       /\ t \in {"div", "a", "title", "image", "SVG", "lineargradient"}
            => dom[mounted[i].ret.n].ns = HtmlNs

\* C21 witness: circle and div were built with the same props; the first is in
\* the SVG namespace, the second in the HTML namespace
C21_Witness ==
  /\ Len(mounted) = 2
  /\ mounted[1].c = TEl("circle", Radius, <<>>)
  /\ mounted[2].c = TEl("div", Radius, <<>>)
  /\ dom[mounted[1].ret.n].ns = SvgNs
  /\ dom[mounted[2].ret.n].ns = HtmlNs
  /\ dom[mounted[1].ret.n].attrs = dom[mounted[2].ret.n].attrs \cup {<<"focusable", "false">>}

----------------------------------------------------------------------------
(* C22 *)

\* the children of p after its child n
After(p, n) ==
  LET ks == dom[p].kids
  IN  SubSeq(ks, IndexOf(ks, n) + 1, Len(ks))

\* the reactive children that are the last child html gave their parent and
\* still are children of it
LastGiven ==
  {e \in ChildEffs :
     /\ Member(effs[e].ph, dom[effs[e].par].kids)
     /\ dom[effs[e].par].built[Len(dom[effs[e].par].built)] = effs[e].ph}

\* C22 (as claimed): after every run of a reactive child's effect the region
\* is the new result and nothing else.  For a reactive child that is the last
\* child of its parent: the nodes after the placeholder are exactly the nodes
\* of the latest result (none when the result was null, undefined or another
\* value that is no node and no collection), and the placeholder's text is
\* empty when the latest result was a node or a collection.
C22_RegionIsNewResult ==
  \A e \in LastGiven :
    /\ After(effs[e].par, effs[e].ph) = effs[e].shown
    /\ effs[e].shown # <<>> => dom[effs[e].ph].text = ""

----------------------------------------------------------------------------
(* C23 *)

\* seq is the beginning of longer
IsPrefix(seq, longer) ==
  Len(seq) <= Len(longer) /\ SubSeq(longer, 1, Len(seq)) = seq

\* the subscribers of the signal written that the last write did not invoke
Skipped == {i \in 1 .. Len(last.snap) : RunsBy(last.snap[i], TopCall) = {}}

\* C23: subscriber sets only grow: whatever the call, every effect that was in
\* a signal's subscriber set before it is in the set after it, in the same
\* place; and a write that returns has invoked every effect that was a
\* subscriber of the signal when it was called, whether or not the effect's
\* latest run had read the signal.
C23_SubscribersOnlyGrow ==
  [][ /\ \A s \in Sigs : IsPrefix(subs[s], subs'[s])
      /\ (last'.op = "write" /\ last'.out = "ok")
           => /\ last'.snap = subs[last'.s]
              /\ Skipped' = {}
    ]_vars

\* C23 witness: an effect subscribed to B whose latest run did not read B was
\* run again by a write to B, did not read B then either, and is still a
\* subscriber of B
C23_Witness ==
  /\ last.op = "write" /\ last.s = "B" /\ last.out = "ok"
  /\ \E i \in 1 .. Len(last.snap) :
       LET e == last.snap[i]
       IN  /\ e \notin last.readers
           /\ RunsBy(e, TopCall) # {}
           /\ "B" \notin effs[e].reads
           /\ Member(e, subs["B"])

----------------------------------------------------------------------------
(* C24 *)

\* the reads of s in the last call that were made while e was the current effect
ReadsAs(e, s) ==
  {i \in LogIdx : log[i].t = "read" /\ log[i].s = s /\ log[i].x = e}

\* the effects the last call added to the subscribers of s
Joined(s) ==
  {e \in 1 .. Len(effs) : Member(e, subs[s]) /\ ~Member(e, last.psubs[s])}

\* C24: an effect joins a signal's subscribers only by a read of that signal
\* made while the effect is the current one, and every such read makes it a
\* subscriber; whenever a body reads, the current effect is either none or the
\* effect whose body it is (the innermost one executing), so no read subscribes
\* another effect; a signal that the body did not reach gains no subscriber.
C24_SubscribedOnlyByOwnRead ==
  Returned =>
    /\ \A s \in Sigs : \A e \in Joined(s) :
         \E i \in ReadsAs(e, s) : log[i].e = e /\ WriterOf(i) = e
    /\ \A i \in LogIdx :
         log[i].t = "read" =>
           /\ log[i].e = WriterOf(i)
           /\ log[i].x \in {None, WriterOf(i)}
           /\ log[i].x # None => Member(log[i].x, subs[log[i].s])
    /\ \A s \in Sigs : subs[s] # last.psubs[s] => \E i \in LogIdx : log[i].t = "read" /\ log[i].s = s
    /\ \A s \in Sigs : \A i \in 1 .. Len(subs[s]) : subs[s][i] \in 1 .. Len(effs)

\* C24 witness: the effect () => { if (a()) b() } was created while a was 0: it
\* is a subscriber of a and not of b, which its body did not reach
C24_Witness ==
  /\ last.op = "effect" /\ last.s = "condAB" /\ last.out = "ok"
  /\ Joined("A") = {Created}
  /\ ReadsAs(Created, "A") # {}
  /\ subs["B"] = <<>>
  /\ \E e \in 1 .. Len(effs) : e # Created /\ ~Member(e, subs["A"])

----------------------------------------------------------------------------
(* C25 *)

\* the reads of the last call made outside every effect body: by a component
\* function render calls, by the function onMount was given
ReadsOutside == {i \in LogIdx : log[i].t = "read" /\ Nesting(i) = 0}

\* the effects whose latest run threw on the current values: () => { if (a() === 1) throw }
FailedLast ==
  {e \in 1 .. Len(effs) : effs[e].kind = "plain" /\ effs[e].body = "boomA" /\ val["A"] = 1}

\* C25: the body of an effect starts with the effect as the current one, and
\* when the run ends, by return or by throw, no effect is current; so between
\* calls (after setEffect, a write, html, render, a microtask) none is, and a
\* read made outside every effect body (in a component function, in a
\* microtask) finds none and subscribes nothing.
C25_NoCurrentOutsideBodies ==
  /\ cur = None
  /\ last.pcur = None
  /\ \A i \in LogIdx :
       /\ (log[i].t = "run" /\ i < Len(log) /\ log[i + 1].t = "read")
            => log[i + 1].x = log[i].e
       /\ log[i].t = "exit" => log[i].x = None
       /\ (log[i].t = "exit" /\ i < Len(log) /\ log[i + 1].t = "read")
            => log[i + 1].x = None
  /\ \A i \in ReadsOutside : log[i].x = None /\ log[i].e = None
  /\ (last.op = "microtask" /\ last.out = "ok") => subs = last.psubs

\* C25 witness: an effect's latest run threw, and later the function given to
\* onMount read a signal in a microtask: no effect was current and the signal
\* gained no subscriber
C25_Witness ==
  /\ last.op = "microtask" /\ last.out = "ok"
  /\ FailedLast # {}
  /\ ReadsOutside # {}
  /\ subs = last.psubs
  /\ cur = None

----------------------------------------------------------------------------
(* C26 *)

\* the log entry at which the run that makes entry i began (0: entry i is
\* made outside every run)
RunStart(i) ==
  LET opens == {j \in 1 .. (i - 1) : log[j].t = "run" /\ Nesting(j) = Nesting(i)}
  IN  IF Nesting(i) = 0 \/ opens = {}
        THEN 0
        ELSE CHOOSE j \in opens : \A k \in opens : k <= j

\* the reads a body made after another effect's run had ended inside its run:
\* a nested setEffect or setMemo, a subscriber run by a write of the body
ReadsAfterInner ==
  {i \in LogIdx :
     /\ log[i].t = "read"
     /\ RunStart(i) # 0
     /\ \E m \in (RunStart(i) + 1) .. (i - 1) : log[m].t = "exit"}

\* the effects of () => { a(); setEffect(() => a()); b() }
Nesters == {e \in 1 .. Len(effs) : effs[e].kind = "plain" /\ effs[e].body = "nestAB"}

\* C26: currentEffect is not restored.  A read that a body makes after another
\* effect's run ended inside it finds no current effect; the effect becomes a
\* subscriber of a signal only by reads that came before; a write invokes no
\* effect that is not a subscriber at the call, so an effect that reads b only
\* after a nested setEffect is never a subscriber of b and no write to b runs it.
C26_CurrentNotRestored ==
  Returned =>
    /\ \A i \in ReadsAfterInner : log[i].x = None
    /\ \A s \in Sigs : \A e \in Joined(s) :
         \E i \in ReadsAs(e, s) : i \notin ReadsAfterInner
    /\ (last.op = "write" /\ last.out = "ok")
         => \A e \in 1 .. Len(effs) : RunsBy(e, TopCall) # {} => Member(e, last.snap)
    /\ \A e \in Nesters :
         /\ ~Member(e, subs["B"])
         /\ (last.op = "write" /\ last.s = "B") => RunsOf(e) = {}

\* C26 witness: the effect () => { a(); setEffect(() => a()); b() } read b in its
\* latest run, b was then written and the effect was not run
C26_Witness ==
  /\ last.op = "write" /\ last.s = "B" /\ last.out = "ok"
  /\ val["B"] # last.pval["B"]
  /\ \E e \in Nesters :
       /\ e \in last.readers
       /\ Member(e, subs["A"])
       /\ RunsOf(e) = {}

\* C26 witness (second case): the body wrote b, which had a subscriber, and
\* then read b: the read found no current effect
C26_AfterWrite ==
  /\ last.op = "effect" /\ last.s = "syncAB" /\ last.out = "ok"
  /\ last.psubs["B"] # <<>>
  /\ \E i \in ReadsAfterInner : log[i].s = "B" /\ log[i].e = Created
  /\ ~Member(Created, subs["B"])

----------------------------------------------------------------------------
(* C27 *)

\* the calls of html so far that built <div>{object}{() => b() throws}after{() => b()}</div>
GuardedBuilt == {i \in 1 .. Len(mounted) : mounted[i].op = "html" /\ mounted[i].c = Guarded}

\* the reactive child of element p whose callable is f
ChildOf(p, f) == CHOOSE e \in ChildEffsOf(p) : effs[e].body = f

\* C27: what binding a child throws is caught.  Of the children an object
\* whose string conversion throws, a callable that throws when b is 1, a text
\* and a callable that shows b: html returns the div; the div holds, in order,
\* the first callable's placeholder, the text, and the second callable's
\* placeholder, nothing for the object; both callables are bound to effects
\* that stay subscribers of b; after the build and after every write the first
\* placeholder shows the error message when b is 1 and b otherwise, and the
\* second shows b.
C27_ChildFailureIsolated ==
  \A i \in GuardedBuilt :
    /\ mounted[i].out = "ok"
    /\ mounted[i].ret.k = "node"
    /\ LET el == mounted[i].ret.n
       IN  /\ dom[el].type = "elem" /\ dom[el].tag = "div"
           /\ Len(dom[el].kids) = 3
           /\ dom[el].kids = dom[el].built
           /\ \E e \in ChildEffsOf(el) : effs[e].body = "boomB"
           /\ \E e \in ChildEffsOf(el) : effs[e].body = "txtB"
           /\ LET boom == ChildOf(el, "boomB")
                  txt == ChildOf(el, "txtB")
              IN  /\ dom[el].kids[1] = effs[boom].ph
                  /\ dom[dom[el].kids[2]].text = "after"
                  /\ dom[el].kids[3] = effs[txt].ph
                  /\ Member(boom, subs["B"])
                  /\ Member(txt, subs["B"])
                  /\ dom[effs[boom].ph].text = IF val["B"] = 1 THEN ErrorText ELSE Str(val["B"])
                  /\ dom[effs[txt].ph].text = Str(val["B"])

\* C27 witness: the callable threw while the element was built
C27_Witness ==
  /\ last.op = "html" /\ last.out = "ok"
  /\ Len(mounted) = 1 /\ GuardedBuilt = {1}
  /\ val["B"] = 1
  /\ ops = 2
  /\ \E i \in LogIdx : log[i] = EvReport("appendChild")
  /\ dom[effs[ChildOf(mounted[1].ret.n, "boomB")].ph].text = ErrorText
  /\ dom[effs[ChildOf(mounted[1].ret.n, "txtB")].ph].text = "1"

\* C27 witness (second case): the callable threw on a later run
C27_ThrewLater ==
  /\ last.op = "write" /\ last.s = "B" /\ last.out = "ok"
  /\ GuardedBuilt = {1}
  /\ val["B"] = 1
  /\ effs[ChildOf(mounted[1].ret.n, "boomB")].runs = 2
  /\ dom[effs[ChildOf(mounted[1].ret.n, "boomB")].ph].text = ErrorText

----------------------------------------------------------------------------
(* C28 *)

\* the components whose result is neither a node nor a collection, and the
\* string form of that result
Primitives == {"Zero", "One", "Blank", "Word", "No", "Yes"}

StringOfResult(c) == StringOf(Build(St, Comp(c).tpl, 0, None, MaxDepth).ret)

\* what the root must hold after render(c) into the cleared root, were every
\* shape of result appended: of each child the tag or the node type
Appended(c) ==
  CASE c = "Para" -> <<"p">>
    [] c = "Many" -> <<"p", "text", "text", "hr">>
    [] OTHER      -> <<"text">>

\* C28 (as claimed): render appends the component's result to the root for
\* every shape of result: a node as it is, the entries of a collection, and a
\* primitive, 0, the empty string and false included, as a text node holding
\* its string form.
C28_EveryResultAppended ==
  \A c \in Shapes :
    (Shown(c) /\ last.op = "render") =>
      /\ Latest.out = "ok"
      /\ Kinds(dom[Root].kids) = Appended(c)
      /\ c \in Primitives => dom[dom[Root].kids[1]].text = StringOfResult(c)

----------------------------------------------------------------------------
(* C29 *)

\* every effect is a plain effect or a memo's effect whose function only reads
ReadOnlySystem ==
  \A e \in 1 .. Len(effs) : effs[e].kind \in {"plain", "memo"} /\ ReadOnly(effs[e].body)

\* no run of the last call threw
NoFailure == \A i \in LogIdx : log[i].t = "exit" => log[i].v = 0

\* the reads of e's latest run in the last call (its body creates no effect
\* and calls no write accessor, so they are the reads of e after the run began)
LatestReads(e) ==
  {i \in LogIdx :
     /\ log[i].t = "read" /\ log[i].e = e
     /\ \A j \in RunsOf(e) : j < i}

\* the reads of e in the last call that returned a value the signal no longer
\* holds
StaleReads(e) ==
  {i \in LogIdx : log[i].t = "read" /\ log[i].e = e /\ log[i].v # val[log[i].s]}

\* C29: where effects only read and memos only compute, after a write that
\* returned (no run having thrown) every subscriber of the written signal has
\* run, and the latest run of every effect the write ran, directly or through
\* a memo, read of every signal and memo the value it holds now; a value that
\* is no longer current was read only by a run that was not the effect's
\* latest.
C29_LatestRunsSeeSettledValues ==
  (Returned /\ last.op = "write" /\ last.out = "ok" /\ ReadOnlySystem /\ NoFailure)
    => /\ \A i \in 1 .. Len(last.snap) : RunsOf(last.snap[i]) # {}
       /\ \A e \in 1 .. Len(effs) :
            /\ \A i \in LatestReads(e) : log[i].v = val[log[i].s]
            /\ StaleReads(e) \cap LatestReads(e) = {}

\* C29 witness: () => { if (a()) m1() } was run by a write to a before m1's
\* effect and read the old value of m1; m1 was then recomputed, the effect was
\* run again and read the new one
C29_Witness ==
  /\ last.op = "write" /\ last.s = "A" /\ last.out = "ok"
  /\ ReadOnlySystem /\ NoFailure
  /\ \E e \in LateReaders :
       /\ Cardinality(RunsOf(e)) = 2
       /\ \E i \in StaleReads(e) : log[i].s = "M1"
       /\ \E i \in LatestReads(e) : log[i].s = "M1" /\ log[i].v = val["M1"]

----------------------------------------------------------------------------
(* C30 *)

\* the calls of html so far that built <>{() => a()}x</>
FragmentsOfFn ==
  {i \in 1 .. Len(mounted) : mounted[i].op = "html" /\ mounted[i].c = FragmentOfFn}

\* the runs of effects in the last call
Runs == {i \in LogIdx : log[i].t = "run"}

\* C30: a function that is a child of a fragment is not bound.  The call of
\* html creates no effect and changes no subscriber set; the fragment holds a
\* text node with the function's source text (and the text that followed it);
\* the signal the function reads has no subscriber, so a write to it runs
\* nothing and the fragment keeps that content.
C30_FragmentChildNotBound ==
  \A i \in FragmentsOfFn :
    /\ mounted[i].out = "ok"
    /\ mounted[i].ret.k = "node"
    /\ LET frag == mounted[i].ret.n
       IN  /\ dom[frag].type = "frag"
           /\ Kinds(dom[frag].kids) = <<"text", "text">>
           /\ dom[dom[frag].kids[1]].text = FnSource
           /\ dom[dom[frag].kids[2]].text = "x"
    /\ \A e \in ChildEffs : effs[e].body # "txtA"
    /\ subs["A"] = <<>>
    /\ (last.op = "html" /\ i = Len(mounted))
         => Len(effs) = Len(last.runs) /\ subs = last.psubs /\ Runs = {}
    /\ (last.op = "write" /\ last.s = "A") => Runs = {}

\* C30 witness: the fragment was built and the signal its function child reads
\* was written: nothing ran and the fragment still shows the source text
C30_Witness ==
  /\ FragmentsOfFn = {1}
  /\ last.op = "write" /\ last.s = "A" /\ last.out = "ok"
  /\ val["A"] = 1 /\ last.pval["A"] = 0
  /\ Runs = {}
  /\ dom[dom[mounted[1].ret.n].kids[1]].text = FnSource


----------------------------------------------------------------------------
(* C31 *)

\* the placeholder of reactive child e is no longer a child of its parent
Detached(e) == ~Member(effs[e].ph, dom[effs[e].par].kids)

\* the children of e's parent that a run of e made
Renderings(e) ==
  {n \in 1 .. Len(dom) : Member(n, dom[effs[e].par].kids) /\ dom[n].by = e}

\* the latest result of e's callable is a node: one branch of a conditional,
\* or the right-hand side of an && whose left-hand side is not 0
YieldsNode(e) ==
  LET c == Callable(effs[e].body)
  IN  \/ c.res.k = "if"
      \/ c.res.k = "and" /\ val[c.body[1].s] # 0

\* the effects the step ran
Ran == {e \in 1 .. Len(effs) : effs'[e].runs > effs[e].runs}

----------------------------------------------------------------------------
(* C32 *)

\* the write calls of the last call whose fan-out ended: the log entry of
\* the assignment, after which the fan-out starts
FanOuts ==
  {i \in LogIdx :
     /\ log[i].t = "assign"
     /\ \E j \in LogIdx : j > i /\ log[j].t = "ret" /\ log[j].c = log[i].c}

\* the effects that became subscribers of the signal of fan-out i after it
\* started and before it ended
JoinedDuring(i) ==
  LET j == CHOOSE k \in LogIdx : k > i /\ log[k].t = "ret" /\ log[k].c = log[i].c
  IN  {e \in 1 .. Len(effs) :
         ~SubscribedAt(e, log[i].s, i) /\ SubscribedAt(e, log[i].s, j)}

\* C32: the fan-out of a write invokes exactly the effects that were
\* subscribers of the signal when it started, each of them once: not an effect
\* that subscribes during the fan-out (one a subscriber creates, an existing
\* one that reads the signal for the first time), and also a subscriber that a
\* write made by an earlier subscriber has already run.
C32_FanOutOverSnapshot ==
  Returned =>
    \A i \in FanOuts : \A e \in 1 .. Len(effs) :
      Cardinality(RunsBy(e, log[i].c)) = IF SubscribedAt(e, log[i].s, i) THEN 1 ELSE 0

\* C32 witness: during the fan-out of a top-level write an older effect, run
\* by a nested write, read the signal for the first time, and the top-level
\* write did not invoke it
C32_Witness ==
  /\ last.op = "write" /\ last.out = "ok"
  /\ \E e \in JoinedDuring(1) :
       /\ e <= Len(last.runs)
       /\ RunsBy(e, TopCall) = {}
       /\ RunsOf(e) # {}
       /\ Member(e, subs[last.s])

\* during the fan-out a subscriber created an effect that reads the signal,
\* and the write did not invoke it
C32_CreatedDuring ==
  /\ last.op = "write" /\ last.out = "ok"
  /\ \E e \in JoinedDuring(1) :
       /\ e > Len(last.runs)
       /\ RunsBy(e, TopCall) = {}
       /\ Member(e, subs[last.s])

\* a subscriber that a nested write had already run was run again by the
\* top-level write
C32_RanTwice ==
  /\ last.op = "write" /\ last.out = "ok"
  /\ \E e \in 1 .. Len(effs) :
       /\ Cardinality(RunsBy(e, TopCall)) = 1
       /\ \E k \in RunsOf(e) : log[k].c # TopCall /\ \A m \in RunsBy(e, TopCall) : k < m


----------------------------------------------------------------------------
(* C33 *)

\* the updater function given to the last write threw
UpdaterThrew ==
  last.op = "write" /\ Apply(last.arg, last.pval[last.s]).out = "throw"

\* C33: when the updater function passed to a write throws, the write throws
\* to its caller, every signal keeps its value, no effect is run (the log of
\* the call holds the throw alone) and no subscriber set changes.
C33_ThrowingUpdaterChangesNothing ==
  UpdaterThrew =>
    /\ last.out = "throw"
    /\ val = last.pval
    /\ \A e \in 1 .. Len(effs) : RunsOf(e) = {} /\ effs[e].runs = last.runs[e]
    /\ Len(effs) = Len(last.runs)
    /\ log = << EvThrow(last.s, TopCall, last.pcur) >>
    /\ subs = last.psubs
    /\ cur = last.pcur

\* C33 witness: a signal with a subscriber and a value other than the initial
\* one was written with an updater that throws
C33_Witness ==
  /\ UpdaterThrew
  /\ last.out = "throw"
  /\ Len(last.snap) >= 1
  /\ val[last.s] = last.pval[last.s]
  /\ val[last.s] # 0


----------------------------------------------------------------------------
(* C34 *)

\* the signals body b reads before the statement that may throw
ReadBeforeThrow(b) ==
  {Body(b)[j].s : j \in {k \in 1 .. Len(Body(b)) :
     /\ Body(b)[k].op = "read"
     /\ \E t \in (k + 1) .. Len(Body(b)) : Body(b)[t].op = "throwIf"}}

\* C34: an effect a run of which has thrown after reading a signal is still a
\* subscriber of that signal; a write to the signal that returns invokes it
\* once like any other subscriber; and when its runs in that write do not
\* throw, they count, end with no effect current, leave it subscribed, and a
\* memo gets the value its function computes.
C34_FailedEffectStaysSubscribed ==
  Returned =>
    \A e \in 1 .. Len(effs) : effs[e].failed =>
      /\ \A s \in ReadBeforeThrow(effs[e].body) : Member(e, subs[s])
      /\ (last.op = "write" /\ last.out = "ok" /\ Member(e, last.snap)) =>
           /\ Cardinality(RunsBy(e, TopCall)) = 1
           /\ ThrowsOf(e) = {} =>
                /\ Cardinality(ExitsOf(e)) = Cardinality(RunsOf(e))
                /\ effs[e].runs = last.runs[e] + Cardinality(RunsOf(e))
                /\ ReadBeforeThrow(effs[e].body) \subseteq effs[e].reads
                /\ cur = None
                /\ effs[e].kind = "memo" =>
                     val[effs[e].body] = Compute(Body(effs[e].body), 0, val).ret

\* C34 witness: an effect whose earlier run threw was run by a later write of
\* the signal it had read, and this run returned
C34_Witness ==
  /\ last.op = "write" /\ last.out = "ok"
  /\ \E e \in 1 .. Len(effs) :
       /\ effs[e].failed
       /\ effs[e].kind = "plain"
       /\ Member(e, last.snap)
       /\ \A s \in ReadBeforeThrow(effs[e].body) : Member(e, subs[s])
       /\ ThrowsOf(e) = {}
       /\ RunsBy(e, TopCall) # {}
       /\ effs[e].runs >= 3

\* a memo whose first run threw got its value from a later write
C34_MemoRecovered ==
  /\ last.op = "write" /\ last.out = "ok"
  /\ \E e \in 1 .. Len(effs) :
       /\ effs[e].failed
       /\ effs[e].kind = "memo"
       /\ last.pval[effs[e].body] = Undef
       /\ val[effs[e].body] # Undef


----------------------------------------------------------------------------
(* C35 *)

\* the length of the longest chain of reads from a plain signal to the
\* function with statements ins: 1 when it reads plain signals only, one more
\* than that of a memo it reads
RECURSIVE LevelIn(_)
LevelIn(ins) ==
  IF ins = <<>>
    THEN 1
    ELSE LET h == Head(ins)
             own == IF h.op = "read" /\ h.s \in MemoSigs THEN 1 + LevelIn(Body(h.s)) ELSE 1
             rest == LevelIn(Tail(ins))
         IN  IF own > rest THEN own ELSE rest

\* the number of chains of reads from signal s to the function with
\* statements ins
RECURSIVE PathsIn(_, _)
PathsIn(s, ins) ==
  IF ins = <<>>
    THEN 0
    ELSE LET h == Head(ins)
             own == CASE h.op = "read" /\ h.s = s -> 1
                      [] h.op = "read" /\ h.s \in MemoSigs -> PathsIn(s, Body(h.s))
                      [] OTHER -> 0
         IN  own + PathsIn(s, Tail(ins))

\* C35: where effects only read and memos only compute (no body writes a
\* signal it depends on, the graph of reads has no cycle), every call
\* returns: no run is left open, a run is never nested deeper than the
\* longest chain of reads that leads to its effect, a write runs an effect at
\* most once for each chain of reads from the written signal to it, and no
\* effect is current afterwards.
C35_AcyclicWritesTerminate ==
  ReadOnlySystem =>
    /\ ~halted
    /\ last.op # "init" =>
         /\ last.out # "div"
         /\ cur = None
         /\ Nesting(Len(log)) = 0
         /\ \A i \in LogIdx :
              log[i].t = "run" => Nesting(i) <= LevelIn(Body(effs[log[i].e].body))
    /\ last.op = "write" =>
         \A e \in 1 .. Len(effs) :
           Cardinality(RunsOf(e)) <= PathsIn(last.s, Body(effs[e].body))

\* C35 witness: a write ran a memo, whose own write ran an effect that reads
\* the memo; the write ran that effect a second time itself, and returned with
\* no effect current
C35_Witness ==
  /\ last.op = "write" /\ last.s = "A" /\ last.out = "ok"
  /\ cur = None
  /\ \E i \in LogIdx :
       /\ log[i].t = "run" /\ Nesting(i) = 2
       /\ Cardinality(RunsOf(log[i].e)) = 2
       /\ PathsIn("A", Body(effs[log[i].e].body)) = 2
====
